---------------------------- MODULE Spec2Model ----------------------------
(***************************************************************************)
(* A model of the ocs-operator reconciliation engine.                      *)
(*                                                                         *)
(* Part I  : ReconcileStorageCluster.Reconcile and ensureCephCluster       *)
(*           (src/pkg/controller/storagecluster/reconcile.go).             *)
(* Part II : the StorageClass manager and the CephObjectStore ensurer      *)
(*           (src/controllers/storagecluster/cephobjectstores.go).         *)
(*                                                                         *)
(* Every handler is one action.  The results of the blocking calls to the  *)
(* object store that the code branches on (errors, stale reads, a process  *)
(* crash) are inputs of the action, drawn from a set of fault points.      *)
(***************************************************************************)
EXTENDS Integers, Sequences, FiniteSets, TLC

VARIABLES
    scExists,      \* the top-level StorageCluster object exists in the store
    scSpec,        \* StorageCluster.Spec
    scStatus,      \* StorageCluster.Status as persisted in the store
    scinit,        \* the StorageClusterInitialization child exists
    cephCluster,   \* the CephCluster child: NoObj or [exists, spec, state]
    rConditions,   \* r.conditions, the reconciler's in-pass accumulator
    readyFile,     \* the process-wide readiness signal (ready.NewFileReady)
    pass,          \* what the last Reconcile did: return value, calls, signal
    env,           \* number of environment changes so far (bounded)
    storageClass,  \* StorageClass objects by name: NoObj or a class
    objectStore,   \* the CephObjectStore child: NoObj or an object store
    dep,           \* CephBlockPool / CephFilesystem: "absent", "nostatus" or a phase
    cfg,           \* ManagedResources, ExternalStorage.Enable, platform
    failureDomain, \* StorageCluster.Status.FailureDomain
    deleting,      \* the top-level object carries a deletion intent
    scPass,        \* what the last StorageClass / object-store operation did
    externalSecret,         \* payload of rook-ceph-external-cluster-details
    externalObjects,        \* the ConfigMaps and Secrets made from records
    rookCephOperatorConfig, \* ROOK_CSI_ENABLE_CEPHFS in rook-ceph-operator-config
    monitoringIP            \* r.monitoringIP

vars == <<scExists, scSpec, scStatus, scinit, cephCluster, rConditions,
          readyFile, pass, env, storageClass, objectStore, dep, cfg,
          failureDomain, deleting, scPass, externalSecret, externalObjects,
          rookCephOperatorConfig, monitoringIP>>

reconcileVars == <<scExists, scSpec, scStatus, scinit, cephCluster,
                   rConditions, readyFile, pass>>

classVars == <<storageClass, objectStore, dep, cfg, failureDomain, deleting,
               scPass>>

externalVars == <<externalSecret, externalObjects, rookCephOperatorConfig,
                  monitoringIP>>

--------------------------------------------------------------------------
(* Bounds of the model *)

\* device-set counts range over 1..MaxCount
MaxCount == 2
\* number of environment changes in one behaviour
MaxEnv == 2

\* an absent object (a Get of it reports not-found, a pointer to it is nil)
NoObj == [exists |-> FALSE]
Nil == "nil"

\* Op applied to the value of x: the value is computed once, where an operator
\* argument or a LET definition is computed again at every use
With(x, Op(_)) == CHOOSE r \in {Op(v) : v \in {x}} : TRUE

--------------------------------------------------------------------------
(* Part I: conditions and status helpers *)

Condition(type, status, reason, message) ==
    [type |-> type, status |-> status, reason |-> reason, message |-> message]

\* conditionsv1.SetStatusCondition: conditions are keyed by type
SetStatusCondition(conditions, c) ==
    {x \in conditions : x.type # c.type} \cup {c}

IsStatusConditionFalse(conditions, type) ==
    \E x \in conditions : x.type = type /\ x.status = "False"

SetProgressingCondition(conditions, reason, message) ==
    LET c1 == SetStatusCondition(conditions,
                  Condition("ReconcileComplete", "Unknown", reason, message))
        c2 == SetStatusCondition(c1,
                  Condition("Available", "False", reason, message))
        c3 == SetStatusCondition(c2,
                  Condition("Progressing", "True", reason, message))
        c4 == SetStatusCondition(c3,
                  Condition("Degraded", "False", reason, message))
    IN  SetStatusCondition(c4,
                  Condition("Upgradeable", "Unknown", reason, message))

SetErrorCondition(conditions, reason, message) ==
    SetStatusCondition(conditions,
        Condition("ReconcileComplete", "False", reason, message))

SetCompleteCondition(conditions, reason, message) ==
    LET c1 == SetStatusCondition(conditions,
                  Condition("ReconcileComplete", "True", reason, message))
        c2 == SetStatusCondition(c1,
                  Condition("Available", "True", reason, message))
        c3 == SetStatusCondition(c2,
                  Condition("Progressing", "False", reason, message))
        c4 == SetStatusCondition(c3,
                  Condition("Degraded", "False", reason, message))
    IN  SetStatusCondition(c4,
                  Condition("Upgradeable", "True", reason, message))

\* the child reports no state yet: neutral, in progress
MapCephClusterNoConditions(conditions, reason, message) ==
    LET c1 == SetStatusCondition(conditions,
                  Condition("Available", "False", reason, message))
        c2 == SetStatusCondition(c1,
                  Condition("Progressing", "True", reason, message))
    IN  SetStatusCondition(c2,
                  Condition("Upgradeable", "False", reason, message))

\* fault-state mapping of a reporting child
MapCephClusterNegativeConditions(conditions, found) ==
    CASE found.state \in {"Creating", "Updating"} ->
             SetStatusCondition(
                 SetStatusCondition(conditions,
                     Condition("Progressing", "True", found.state, "")),
                 Condition("Upgradeable", "False", found.state, ""))
      [] found.state = "Error" ->
             SetStatusCondition(conditions,
                 Condition("Degraded", "True", "ClusterStateError", ""))
      [] OTHER -> conditions

--------------------------------------------------------------------------
(* Part I: desired CephCluster *)

DeviceSetNames == {"a", "b"}

defaultOSDPlacement == "defaultOSDPlacement"

RECURSIVE newStorageClassDeviceSets(_)
newStorageClassDeviceSets(sds) ==
    IF sds = <<>> THEN <<>>
    ELSE <<[name |-> Head(sds).name, count |-> Head(sds).count,
            placement |-> Head(sds).placement]>>
         \o newStorageClassDeviceSets(Tail(sds))

\* newCephCluster(sc, cephImage).Spec
newCephCluster(spec) ==
    LET sets == newStorageClassDeviceSets(spec.storageDeviceSets)
    IN  [monCount |-> 3,
         hostNetwork |-> spec.hostNetwork,
         storageClassDeviceSets |->
             [i \in 1..Len(sets) |->
                 [sets[i] EXCEPT !.placement = defaultOSDPlacement]],
         monVolumeClaimTemplate |->
             IF Len(spec.storageDeviceSets) > 0
             THEN [exists |-> TRUE,
                   storageClassOf |-> spec.storageDeviceSets[1].name,
                   storage |-> "10Gi"]
             ELSE NoObj]

\* a detection that takes every change of a count for an expansion
ExpandingOnAnyChange(foundSpec, desiredSpec) ==
    \E i \in 1..Len(foundSpec.storageClassDeviceSets) :
        \E j \in 1..Len(desiredSpec.storageClassDeviceSets) :
            /\ foundSpec.storageClassDeviceSets[i].name
                 = desiredSpec.storageClassDeviceSets[j].name
            /\ desiredSpec.storageClassDeviceSets[j].count
                 # foundSpec.storageClassDeviceSets[i].count

\* reconcile.go 251-263: is some existing device set scaled up by the desired spec;
\* the assignment of the phase is logged among the calls of the pass
Expanding(foundSpec, desiredSpec) ==
    \E i \in 1..Len(foundSpec.storageClassDeviceSets) :
        \E j \in 1..Len(desiredSpec.storageClassDeviceSets) :
            /\ foundSpec.storageClassDeviceSets[i].name
                 = desiredSpec.storageClassDeviceSets[j].name
            /\ desiredSpec.storageClassDeviceSets[j].count
                 > foundSpec.storageClassDeviceSets[i].count

--------------------------------------------------------------------------
(* Part I: the calls of one pass *)

Op(verb, kind, res) == [verb |-> verb, kind |-> kind, res |-> res]

\* the error a failing call returns, named after the call
ErrOf(point) == "error: " \o point

ReconcileFaultPoints ==
    {"GetStorageCluster", "StatusUpdateInit", "GetInit", "StaleInit",
     "CreateInit", "GetCephCluster", "CreateCephCluster",
     "UpdateCephCluster", "StatusUpdateError", "ReadySet", "ReadyUnset",
     "StatusUpdateFinal"}

\* the calls of ensureCephCluster that can fail
EnsurerFaultPoints ==
    {"GetCephCluster", "CreateCephCluster", "UpdateCephCluster"}

\* The inputs of one pass: the set of calls that fail (or, for StaleInit, read
\* stale data).  A pass returns at its first failing call, except that the
\* failure path of an ensurer goes on to write the status, and that a stale
\* not-found of the initialization child is followed by a Create: every other
\* combination behaves as one of these.
ReconcileFaults ==
    {{}} \cup {{p} : p \in ReconcileFaultPoints}
         \cup {{p, "StatusUpdateError"} : p \in EnsurerFaultPoints}
         \cup {{"StaleInit", "CreateInit"}}

\* fmt.Sprintf("Error while reconciling: %v", err)
ErrorMessage(err) == <<"Error while reconciling: ", err>>

\* a pass in progress: in-memory instance status, store contents, calls so far
StartPass ==
    [mem |-> scStatus, status |-> scStatus, scinit |-> scinit,
     cc |-> cephCluster, rconds |-> rConditions, ready |-> readyFile,
     ops |-> <<>>, ran |-> <<>>, err |-> Nil, ret |-> "running",
     signal |-> "none"]

Call(st, verb, kind, res) == [st EXCEPT !.ops = Append(@, Op(verb, kind, res))]

Return(st, ret) == [st EXCEPT !.ret = ret]

\* an ensurer that overwrites the child it finds without comparing the specs
ensureCephClusterOverwriting(st, F) ==
    LET desired == newCephCluster(scSpec)
    IN  IF st.cc = NoObj
        THEN [Call(Call(st, "Get", "CephCluster", "notfound"),
                   "Create", "CephCluster", "ok")
                 EXCEPT !.cc = [exists |-> TRUE, spec |-> desired, state |-> ""],
                        !.err = Nil]
        ELSE [Call(Call(st, "Get", "CephCluster", "ok"),
                   "Update", "CephCluster", "ok")
                 EXCEPT !.cc.spec = desired, !.err = Nil]

\* an ensurer that on drift patches the monitor count and keeps the rest of the
\* spec it found
ensureCephClusterMerging(st, F) ==
    LET desired == newCephCluster(scSpec)
    IN  IF st.cc = NoObj
        THEN [Call(Call(st, "Get", "CephCluster", "notfound"),
                   "Create", "CephCluster", "ok")
                 EXCEPT !.cc = [exists |-> TRUE, spec |-> desired, state |-> ""],
                        !.err = Nil]
        ELSE IF desired # st.cc.spec
        THEN [Call(Call(st, "Get", "CephCluster", "ok"),
                   "Update", "CephCluster", "ok")
                 EXCEPT !.cc.spec.monCount = desired.monCount, !.err = Nil]
        ELSE [Call(st, "Get", "CephCluster", "ok") EXCEPT !.err = Nil]

\* an ensurer that takes a failed fetch of the child for a child that does not
\* report yet
ensureCephClusterLenient(st, F) ==
    LET desired == newCephCluster(scSpec)
        found == st.cc
    IN  IF "GetCephCluster" \in F
        THEN [Call(st, "Get", "CephCluster", "error")
                 EXCEPT !.rconds = MapCephClusterNoConditions(@,
                            "CephClusterStatus",
                            "CephCluster resource is not reporting status"),
                        !.err = Nil]
        ELSE IF found = NoObj
        THEN LET s1 == Call(st, "Get", "CephCluster", "notfound")
             IN  IF "CreateCephCluster" \in F
                 THEN [Call(s1, "Create", "CephCluster", "error")
                          EXCEPT !.err = ErrOf("CreateCephCluster")]
                 ELSE [Call(s1, "Create", "CephCluster", "ok")
                          EXCEPT !.cc = [exists |-> TRUE, spec |-> desired,
                                        state |-> ""],
                                 !.err = Nil]
        ELSE LET s1 == Call(st, "Get", "CephCluster", "ok")
             IN  IF desired # found.spec
                 THEN LET s2 == IF Expanding(found.spec, desired)
                                THEN [Call(s1, "SetPhase", "StorageCluster",
                                           "Expanding")
                                         EXCEPT !.mem.phase = "Expanding"]
                                ELSE s1
                      IN  IF "UpdateCephCluster" \in F
                          THEN [Call(s2, "Update", "CephCluster", "error")
                                   EXCEPT !.err = ErrOf("UpdateCephCluster")]
                          ELSE [Call(s2, "Update", "CephCluster", "ok")
                                   EXCEPT !.cc = [found EXCEPT !.spec = desired],
                                          !.err = Nil]
                 ELSE LET s2 == [s1 EXCEPT !.mem.relatedObjects =
                                               @ \cup {"CephCluster"}]
                      IN  IF found.state = ""
                          THEN [s2 EXCEPT
                                  !.rconds = MapCephClusterNoConditions(@,
                                      "CephClusterStatus",
                                      "CephCluster resource is not reporting status"),
                                  !.err = Nil]
                          ELSE [s2 EXCEPT
                                  !.rconds =
                                      MapCephClusterNegativeConditions(@, found),
                                  !.err = Nil]

\* reconcile.go 227-287
ensureCephCluster(st, F) ==
    LET desired == newCephCluster(scSpec)
        found == st.cc
    IN  IF "GetCephCluster" \in F
        THEN [Call(st, "Get", "CephCluster", "error")
                 EXCEPT !.err = ErrOf("GetCephCluster")]
        ELSE IF found = NoObj
        THEN LET s1 == Call(st, "Get", "CephCluster", "notfound")
             IN  IF "CreateCephCluster" \in F
                 THEN [Call(s1, "Create", "CephCluster", "error")
                          EXCEPT !.err = ErrOf("CreateCephCluster")]
                 ELSE [Call(s1, "Create", "CephCluster", "ok")
                          EXCEPT !.cc = [exists |-> TRUE, spec |-> desired,
                                        state |-> ""],
                                 !.err = Nil]
        ELSE LET s1 == Call(st, "Get", "CephCluster", "ok")
             IN  IF desired # found.spec
                 THEN LET s2 == IF Expanding(found.spec, desired)
                                THEN [Call(s1, "SetPhase", "StorageCluster",
                                           "Expanding")
                                         EXCEPT !.mem.phase = "Expanding"]
                                ELSE s1
                      IN  IF "UpdateCephCluster" \in F
                          THEN [Call(s2, "Update", "CephCluster", "error")
                                   EXCEPT !.err = ErrOf("UpdateCephCluster")]
                          ELSE [Call(s2, "Update", "CephCluster", "ok")
                                   EXCEPT !.cc = [found EXCEPT !.spec = desired],
                                          !.err = Nil]
                 ELSE LET s2 == [s1 EXCEPT !.mem.relatedObjects =
                                               @ \cup {"CephCluster"}]
                      IN  IF found.state = ""
                          THEN [s2 EXCEPT
                                  !.rconds = MapCephClusterNoConditions(@,
                                      "CephClusterStatus",
                                      "CephCluster resource is not reporting status"),
                                  !.err = Nil]
                          ELSE [s2 EXCEPT
                                  !.rconds =
                                      MapCephClusterNegativeConditions(@, found),
                                  !.err = Nil]

\* reconcile.go 149-152: the fixed ensurer sequence
Ensurers == <<"ensureCephCluster">>

RunEnsurer(name, st, F) ==
    IF name = "ensureCephCluster" THEN ensureCephCluster(st, F) ELSE st

\* a failure path that logs the ensurer's error and reports success
FailPassLogged(st, F) == Return(st, Nil)

\* a failure path that returns the error of its write of the status
FailPassReturningWriteError(st, F) ==
    LET s1 == [st EXCEPT
                 !.mem.conditions = SetErrorCondition(@, "ReconcileFailed",
                                        ErrorMessage(st.err)),
                 !.mem.phase = "Error"]
    IN  IF "StatusUpdateError" \in F
        THEN Return(Call(s1, "StatusUpdate", "StorageCluster", "error"),
                    ErrOf("StatusUpdateError"))
        ELSE Return([Call(s1, "StatusUpdate", "StorageCluster", "ok")
                        EXCEPT !.status = s1.mem], st.err)

\* reconcile.go 153-166: the failure path of the loop
FailPass(st, F) ==
    LET s1 == [st EXCEPT
                 !.mem.conditions = SetErrorCondition(@, "ReconcileFailed",
                                        ErrorMessage(st.err)),
                 !.mem.phase = "Error"]
        s2 == IF "StatusUpdateError" \in F
              THEN Call(s1, "StatusUpdate", "StorageCluster", "error")
              ELSE [Call(s1, "StatusUpdate", "StorageCluster", "ok")
                       EXCEPT !.status = s1.mem]
    IN  Return(s2, st.err)

\* reconcile.go 149-167: run the sequence from position i, stop at the first error
RECURSIVE RunEnsurers(_, _, _)
RunEnsurers(i, st, F) ==
    IF i > Len(Ensurers) THEN st
    ELSE LET s1 == RunEnsurer(Ensurers[i],
                       [st EXCEPT !.ran = Append(@, Ensurers[i])], F)
         IN  IF s1.err # Nil THEN FailPass(s1, F)
             ELSE RunEnsurers(i + 1, s1, F)

\* a fetch after which the pass goes on when the top-level object is missing
FetchInstanceProceeding(st, F) ==
    IF "GetStorageCluster" \in F
    THEN Return(Call(st, "Get", "StorageCluster", "error"),
                ErrOf("GetStorageCluster"))
    ELSE IF ~scExists
    THEN Call(st, "Get", "StorageCluster", "notfound")
    ELSE Call(st, "Get", "StorageCluster", "ok")

\* reconcile.go 87-100
FetchInstance(st, F) ==
    IF "GetStorageCluster" \in F
    THEN Return(Call(st, "Get", "StorageCluster", "error"),
                ErrOf("GetStorageCluster"))
    ELSE IF ~scExists
    THEN Return(Call(st, "Get", "StorageCluster", "notfound"), Nil)
    ELSE Call(st, "Get", "StorageCluster", "ok")

\* an initialization of the conditions that stays in memory until the pass ends
InitConditionsInMemory(st, F) ==
    IF st.ret # "running" \/ st.mem.conditions # {} THEN st
    ELSE [st EXCEPT
            !.mem.conditions = SetProgressingCondition(@, "Init",
                                   "Initializing StorageCluster"),
            !.mem.phase = "Progressing"]

\* reconcile.go 102-114
InitConditions(st, F) ==
    IF st.ret # "running" \/ st.mem.conditions # {} THEN st
    ELSE LET s1 == [st EXCEPT
                      !.mem.conditions = SetProgressingCondition(@, "Init",
                                             "Initializing StorageCluster"),
                      !.mem.phase = "Progressing"]
         IN  IF "StatusUpdateInit" \in F
             THEN Return(Call(s1, "StatusUpdate", "StorageCluster", "error"),
                         ErrOf("StatusUpdateInit"))
             ELSE [Call(s1, "StatusUpdate", "StorageCluster", "ok")
                      EXCEPT !.status = s1.mem]

\* reconcile.go 116-143
EnsureInitialization(st, F) ==
    IF st.ret # "running" THEN st
    ELSE IF "GetInit" \in F
    THEN Return(Call(st, "Get", "StorageClusterInitialization", "error"),
                ErrOf("GetInit"))
    ELSE IF st.scinit /\ "StaleInit" \notin F
    THEN Call(st, "Get", "StorageClusterInitialization", "ok")
    ELSE LET s1 == Call(st, "Get", "StorageClusterInitialization", "notfound")
         IN  IF "CreateInit" \in F
             THEN Return(Call(s1, "Create", "StorageClusterInitialization",
                              "error"), ErrOf("CreateInit"))
             ELSE IF st.scinit
             THEN Return(Call(s1, "Create", "StorageClusterInitialization",
                              "exists"), "AlreadyExists")
             ELSE Return([Call(s1, "Create", "StorageClusterInitialization",
                               "ok") EXCEPT !.scinit = TRUE], Nil)

\* reconcile.go 145-167
Converge(st, F) ==
    IF st.ret # "running" THEN st
    ELSE RunEnsurers(1, [st EXCEPT !.rconds = {}], F)

\* reconcile.go 168-183
FinishReady(st, F) ==
    LET s1 == [st EXCEPT
                 !.mem.conditions = SetCompleteCondition(@, "ReconcileCompleted",
                                        "Reconcile completed successfully")]
    IN  IF "ReadySet" \in F
        THEN Return([s1 EXCEPT !.mem.phase = "Ready",
                               !.signal = "SetError"], ErrOf("ReadySet"))
        ELSE [s1 EXCEPT !.ready = TRUE, !.signal = "Set",
                        !.mem.phase = "Ready"]

RECURSIVE MergeConditions(_, _)
MergeConditions(conditions, from) ==
    IF from = {} THEN conditions
    ELSE LET c == CHOOSE x \in from : TRUE
         IN  MergeConditions(SetStatusCondition(conditions, c), from \ {c})

\* a merge of the accumulator that leaves the readiness signal and the phase alone
FinishNegativeKeepsReady(st, F) ==
    [st EXCEPT
       !.mem.conditions =
           SetStatusCondition(MergeConditions(st.mem.conditions, st.rconds),
               Condition("ReconcileComplete", "True", "ReconcileCompleted",
                         "Reconcile completed successfully")),
       !.mem.phase = "Ready"]

\* reconcile.go 184-221
FinishNegative(st, F) ==
    LET merged == SetStatusCondition(
                      MergeConditions(st.mem.conditions, st.rconds),
                      Condition("ReconcileComplete", "True",
                                "ReconcileCompleted",
                                "Reconcile completed successfully"))
        s1 == [st EXCEPT !.mem.conditions = merged, !.mem.phase = "Ready"]
    IN  IF IsStatusConditionFalse(merged, "Upgradeable")
        THEN LET s2 == IF s1.mem.phase \in {"Ready", ""}
                       THEN [s1 EXCEPT !.mem.phase = "NotReady"]
                       ELSE s1
             IN  IF "ReadyUnset" \in F
                 THEN Return([s2 EXCEPT !.signal = "UnsetError"],
                             ErrOf("ReadyUnset"))
                 ELSE [s2 EXCEPT !.ready = FALSE, !.signal = "Unset"]
        ELSE s1

\* an end of pass that asserts readiness whatever the accumulator holds
FinishAlwaysReady(st, F) ==
    IF st.ret # "running" THEN st
    ELSE LET s1 == FinishReady(st, F)
         IN  IF s1.ret # "running" THEN s1
             ELSE Return([Call(s1, "StatusUpdate", "StorageCluster", "ok")
                             EXCEPT !.status = s1.mem], Nil)

\* reconcile.go 168-222
Finish(st, F) ==
    IF st.ret # "running" THEN st
    ELSE LET s1 == IF st.rconds = {} THEN FinishReady(st, F)
                   ELSE FinishNegative(st, F)
         IN  IF s1.ret # "running" THEN s1
             ELSE IF "StatusUpdateFinal" \in F
             THEN Return(Call(s1, "StatusUpdate", "StorageCluster", "error"),
                         ErrOf("StatusUpdateFinal"))
             ELSE Return([Call(s1, "StatusUpdate", "StorageCluster", "ok")
                             EXCEPT !.status = s1.mem], Nil)

\* reconcile.go 83-223
ReconcileResult(F) ==
    Finish(Converge(EnsureInitialization(
        InitConditions(FetchInstance(StartPass, F), F), F), F), F)

Reconcile ==
    \E F \in ReconcileFaults :
        \E r \in {ReconcileResult(F)} :
            /\ scStatus' = r.status
            /\ scinit' = r.scinit
            /\ cephCluster' = r.cc
            /\ rConditions' = r.rconds
            /\ readyFile' = r.ready
            /\ pass' = [ret |-> r.ret, ops |-> r.ops, ran |-> r.ran,
                        err |-> r.err, signal |-> r.signal]
            /\ UNCHANGED <<scExists, scSpec, env>>
            /\ UNCHANGED classVars
            /\ UNCHANGED externalVars

--------------------------------------------------------------------------
(* Part I: the environment of the reconciler *)

NoPass == [ret |-> "none", ops |-> <<>>, ran |-> <<>>, err |-> Nil,
           signal |-> "none"]

\* ExternalSecretHash is a string of hexadecimal digits, here a sequence
EmptyStatus == [phase |-> "", conditions |-> {}, relatedObjects |-> {},
                externalSecretHash |-> <<>>]

\* the placement of a device set of the top-level spec: left unset, or set
Placements == {"unset", "custom"}

DeviceSets ==
    [name : DeviceSetNames, count : 1..MaxCount, placement : Placements]

Disturb ==
    /\ env < MaxEnv
    /\ env' = env + 1
    /\ pass' = NoPass

\* the user scales a device set up or down
ScaleDeviceSet ==
    /\ scExists
    /\ Disturb
    /\ \E i \in 1..Len(scSpec.storageDeviceSets), c \in 1..MaxCount :
           /\ c # scSpec.storageDeviceSets[i].count
           /\ scSpec' = [scSpec EXCEPT !.storageDeviceSets[i].count = c]
    /\ UNCHANGED <<scExists, scStatus, scinit, cephCluster, rConditions,
                   readyFile>>
    /\ UNCHANGED classVars
    /\ UNCHANGED externalVars

\* the user adds a device set
AddDeviceSet ==
    /\ scExists
    /\ Disturb
    /\ \E ds \in DeviceSets :
           /\ \A i \in 1..Len(scSpec.storageDeviceSets) :
                  scSpec.storageDeviceSets[i].name # ds.name
           /\ scSpec' = [scSpec EXCEPT
                            !.storageDeviceSets = Append(@, ds)]
    /\ UNCHANGED <<scExists, scStatus, scinit, cephCluster, rConditions,
                   readyFile>>
    /\ UNCHANGED classVars
    /\ UNCHANGED externalVars

\* the storage engine reports a state on the CephCluster child
CephClusterStates == {"Creating", "Created", "Error"}

CephClusterReports ==
    /\ cephCluster # NoObj
    /\ Disturb
    /\ \E s \in CephClusterStates :
           /\ s # cephCluster.state
           /\ cephCluster' = [cephCluster EXCEPT !.state = s]
    /\ UNCHANGED <<scExists, scSpec, scStatus, scinit, rConditions, readyFile>>
    /\ UNCHANGED classVars
    /\ UNCHANGED externalVars

\* the top-level object is deleted; owned children are garbage collected
DeleteStorageCluster ==
    /\ scExists
    /\ Disturb
    /\ scExists' = FALSE
    /\ scinit' = FALSE
    /\ cephCluster' = NoObj
    /\ scStatus' = EmptyStatus
    /\ UNCHANGED <<scSpec, rConditions, readyFile>>
    /\ UNCHANGED classVars
    /\ UNCHANGED externalVars

--------------------------------------------------------------------------
(* Part II: StorageClass configurations *)

Namespace == "openshift-storage"

\* the kinds of ManagedResources that own a storage class
Kinds == {"CephBlockPools", "CephFilesystems", "CephObjectStores"}

Strategies == {"manage", "init", "ignore"}

Platforms == {"AWS", "None"}

AvoidObjectStorePlatforms == {"AWS"}

avoidObjectStore(platform) == platform \in AvoidObjectStorePlatforms

ClassNames ==
    {"ocsinit-cephfs", "ocsinit-ceph-rbd", "ocsinit-ceph-rbd-thick",
     "ocsinit-ceph-rgw"}

StorageClassObj(parameters, provisioner) ==
    [exists |-> TRUE, Parameters |-> parameters, Provisioner |-> provisioner,
     marked |-> FALSE]

\* a configuration that knows only ignore and manage
StorageClassConfigurationManaged(name, kind, class) ==
    [name |-> name, kind |-> kind, storageClass |-> class,
     reconcileStrategy |-> IF cfg.strategy[kind] = "ignore" THEN "ignore"
                           ELSE "manage",
     disable |-> cfg.disable[kind]]

\* cephobjectstores.go 144-148, filled in at 317-318, 361-362 and 386-387
StorageClassConfiguration(name, kind, class) ==
    [name |-> name, kind |-> kind, storageClass |-> class,
     reconcileStrategy |-> cfg.strategy[kind], disable |-> cfg.disable[kind]]

newCephFilesystemStorageClassConfiguration ==
    StorageClassConfiguration("ocsinit-cephfs", "CephFilesystems",
        StorageClassObj(
            ("clusterID" :> Namespace)
            @@ ("fsName" :> "ocsinit-cephfilesystem")
            @@ ("csi.storage.k8s.io/provisioner-secret-name"
                    :> "rook-csi-cephfs-provisioner")
            @@ ("csi.storage.k8s.io/provisioner-secret-namespace" :> Namespace)
            @@ ("csi.storage.k8s.io/node-stage-secret-name"
                    :> "rook-csi-cephfs-node")
            @@ ("csi.storage.k8s.io/node-stage-secret-namespace" :> Namespace)
            @@ ("csi.storage.k8s.io/controller-expand-secret-name"
                    :> "rook-csi-cephfs-provisioner")
            @@ ("csi.storage.k8s.io/controller-expand-secret-namespace"
                    :> Namespace),
            "openshift-storage.cephfs.csi.ceph.com"))

newCephBlockPoolStorageClassConfiguration(thickProvision) ==
    StorageClassConfiguration(
        IF thickProvision THEN "ocsinit-ceph-rbd-thick" ELSE "ocsinit-ceph-rbd",
        "CephBlockPools",
        StorageClassObj(
            ("clusterID" :> Namespace)
            @@ ("pool" :> "ocsinit-cephblockpool")
            @@ ("imageFeatures" :> "layering")
            @@ ("csi.storage.k8s.io/fstype" :> "ext4")
            @@ ("imageFormat" :> "2")
            @@ ("thickProvision" :> IF thickProvision THEN "true" ELSE "false")
            @@ ("csi.storage.k8s.io/provisioner-secret-name"
                    :> "rook-csi-rbd-provisioner")
            @@ ("csi.storage.k8s.io/provisioner-secret-namespace" :> Namespace)
            @@ ("csi.storage.k8s.io/node-stage-secret-name"
                    :> "rook-csi-rbd-node")
            @@ ("csi.storage.k8s.io/node-stage-secret-namespace" :> Namespace)
            @@ ("csi.storage.k8s.io/controller-expand-secret-name"
                    :> "rook-csi-rbd-provisioner")
            @@ ("csi.storage.k8s.io/controller-expand-secret-namespace"
                    :> Namespace),
            "openshift-storage.rbd.csi.ceph.com"))

newCephOBCStorageClassConfiguration ==
    StorageClassConfiguration("ocsinit-ceph-rgw", "CephObjectStores",
        StorageClassObj(
            ("objectStoreNamespace" :> Namespace)
            @@ ("region" :> "us-east-1")
            @@ ("objectStoreName" :> "ocsinit-cephobjectstore"),
            "openshift-storage.ceph.rook.io/bucket"))

\* a list whose object-storage class follows the platform alone
newStorageClassConfigurationsByPlatform(F) ==
    LET ret == <<newCephFilesystemStorageClassConfiguration,
                 newCephBlockPoolStorageClassConfiguration(FALSE),
                 newCephBlockPoolStorageClassConfiguration(TRUE)>>
        err == <<"Get", "Platform">> \in F
        avoid == ~err /\ avoidObjectStore(cfg.platform)
    IN  IF (cfg.external \/ ~err) /\ ~avoid
        THEN Append(ret, newCephOBCStorageClassConfiguration)
        ELSE ret

\* cephobjectstores.go 393-408; F holds <<"Get", "Platform">> when the platform
\* cannot be determined
newStorageClassConfigurations(F) ==
    LET ret == <<newCephFilesystemStorageClassConfiguration,
                 newCephBlockPoolStorageClassConfiguration(FALSE),
                 newCephBlockPoolStorageClassConfiguration(TRUE)>>
        err == <<"Get", "Platform">> \in F
        avoid == ~err /\ avoidObjectStore(cfg.platform)
    IN  IF cfg.external \/ (~err /\ ~avoid)
        THEN Append(ret, newCephOBCStorageClassConfiguration)
        ELSE ret

--------------------------------------------------------------------------
(* Part II: the StorageClass manager *)

ObjOp(verb, kind, name, res) ==
    [verb |-> verb, kind |-> kind, name |-> name, res |-> res]

ClassOp(st, verb, name, res) ==
    [st EXCEPT !.ops = Append(@, ObjOp(verb, "StorageClass", name, res))]

Failed(st, err) == [st EXCEPT !.ret = err]

\* a missing class is left missing
skipMissingStorageClass(scc, st, F) ==
    ClassOp(st, "Get", scc.name, "notfound")

\* cephobjectstores.go 252-258: the class is not found and is created
createMissingStorageClass(scc, st, F) ==
    LET n == scc.name
        s1 == ClassOp(st, "Get", n, "notfound")
    IN  IF <<"Create", n>> \in F
        THEN Failed(ClassOp(s1, "Create", n, "error"), ErrOf("Create " \o n))
        ELSE [ClassOp(s1, "Create", n, "ok") EXCEPT !.sc[n] = scc.storageClass]

\* every existing class is taken to differ from the desired one
parametersAlwaysDiffer(sc, existing) == TRUE

\* a comparison of the provisioner as well as of the parameters
storageClassesDiffer(sc, existing) ==
    \/ sc.Parameters # existing.Parameters
    \/ sc.Provisioner # existing.Provisioner

\* cephobjectstores.go 268: !reflect.DeepEqual(sc.Parameters, existing.Parameters)
parametersDiffer(sc, existing) == sc.Parameters # existing.Parameters

\* a drifting class is overwritten by an Update
updateStorageClassInPlace(scc, st, F) ==
    [ClassOp(st, "Update", scc.name, "ok") EXCEPT
        !.sc[scc.name] = scc.storageClass]

\* cephobjectstores.go 269-282: a drifting class is deleted and created anew;
\* <<"Crash", n>> in F ends the process between the two calls
recreateStorageClass(scc, st, F) ==
    LET n == scc.name
    IN  IF <<"Delete", n>> \in F
        THEN Failed(ClassOp(st, "Delete", n, "error"), ErrOf("Delete " \o n))
        ELSE LET s1 == [ClassOp(st, "Delete", n, "ok") EXCEPT !.sc[n] = NoObj]
             IN  IF <<"Crash", n>> \in F
                 THEN Failed(s1, "crash")
                 ELSE IF <<"Create", n>> \in F
                 THEN Failed(ClassOp(s1, "Create", n, "error"),
                             ErrOf("Create " \o n))
                 ELSE [ClassOp(s1, "Create", n, "ok")
                          EXCEPT !.sc[n] = scc.storageClass]

\* an iteration that honours the policy ignore and not the disable flag
reconcileStorageClassOfDisabled(scc, st, F) ==
    LET n == scc.name
        existing == st.sc[n]
    IN  IF scc.reconcileStrategy = "ignore"
        THEN st
        ELSE IF ~existing.exists
        THEN createMissingStorageClass(scc, st, F)
        ELSE ClassOp(st, "Get", n, "ok")

\* an iteration that does not look at the deletion timestamp
reconcileStorageClassOfMarked(scc, st, F) ==
    LET n == scc.name
        existing == st.sc[n]
    IN  IF scc.reconcileStrategy = "ignore" \/ scc.disable
        THEN st
        ELSE IF <<"Get", n>> \in F
        THEN Failed(ClassOp(st, "Get", n, "error"), ErrOf("Get " \o n))
        ELSE IF ~existing.exists
        THEN createMissingStorageClass(scc, st, F)
        ELSE LET s1 == ClassOp(st, "Get", n, "ok")
             IN  IF scc.reconcileStrategy = "init"
                 THEN s1
                 ELSE IF parametersDiffer(scc.storageClass, existing)
                 THEN recreateStorageClass(scc, s1, F)
                 ELSE s1

\* cephobjectstores.go 245-284: one iteration of the loop
reconcileStorageClass(scc, st, F) ==
    LET n == scc.name
        existing == st.sc[n]
    IN  IF scc.reconcileStrategy = "ignore" \/ scc.disable
        THEN st
        ELSE IF <<"Get", n>> \in F
        THEN Failed(ClassOp(st, "Get", n, "error"), ErrOf("Get " \o n))
        ELSE IF ~existing.exists
        THEN createMissingStorageClass(scc, st, F)
        ELSE LET s1 == ClassOp(st, "Get", n, "ok")
             IN  IF scc.reconcileStrategy = "init"
                 THEN s1
                 ELSE IF existing.marked
                 THEN Failed(s1, "marked for deletion: " \o n)
                 ELSE IF parametersDiffer(scc.storageClass, existing)
                 THEN recreateStorageClass(scc, s1, F)
                 ELSE s1

\* cephobjectstores.go 243-287: the loop returns at the first error
RECURSIVE createStorageClasses(_, _, _)
createStorageClasses(sccs, st, F) ==
    IF sccs = <<>> \/ st.ret # Nil THEN st
    ELSE With(reconcileStorageClass(Head(sccs), st, F),
              LAMBDA s1 : createStorageClasses(Tail(sccs), s1, F))

\* the dependencies of the storage classes and the kinds they gate
Dependencies == {"CephBlockPool", "CephFilesystem"}

KindOfDependency(d) ==
    IF d = "CephBlockPool" THEN "CephBlockPools" ELSE "CephFilesystems"

DependencyName(d) ==
    IF d = "CephBlockPool" THEN "ocsinit-cephblockpool"
    ELSE "ocsinit-cephfilesystem"

\* a gate that is satisfied by a dependency that merely exists
waitForDependencyFound(d, st, F) ==
    IF st.ret # Nil \/ cfg.disable[KindOfDependency(d)] THEN st
    ELSE IF dep[d] = "absent"
    THEN Failed([st EXCEPT !.ops = Append(@,
                     ObjOp("Get", d, DependencyName(d), "notfound"))],
                "NotFound")
    ELSE [st EXCEPT !.ops = Append(@,
              ObjOp("Get", d, DependencyName(d), "ok"))]

\* cephobjectstores.go 160-177 and 179-196: wait for one dependency
waitForDependency(d, st, F) ==
    IF st.ret # Nil \/ cfg.disable[KindOfDependency(d)] THEN st
    ELSE IF <<"Get", d>> \in F
    THEN Failed([st EXCEPT !.ops = Append(@,
                     ObjOp("Get", d, DependencyName(d), "error"))],
                ErrOf("Get " \o d))
    ELSE IF dep[d] = "absent"
    THEN Failed([st EXCEPT !.ops = Append(@,
                     ObjOp("Get", d, DependencyName(d), "notfound"))],
                "NotFound")
    ELSE LET s1 == [st EXCEPT !.ops = Append(@,
                        ObjOp("Get", d, DependencyName(d), "ok"))]
         IN  IF dep[d] = "nostatus"
             THEN Failed(s1, d \o " is not reporting status")
             ELSE IF dep[d] # "Ready"
             THEN Failed(s1, d \o " is not Ready")
             ELSE s1

StartClassPass == [sc |-> storageClass, os |-> objectStore, ops |-> <<>>,
                   ret |-> Nil]

\* cephobjectstores.go 154-204
ensureCreatedResult(F) ==
    With(newStorageClassConfigurations(F), LAMBDA scs :
        With(waitForDependency("CephBlockPool", StartClassPass, F), LAMBDA s1 :
            With(waitForDependency("CephFilesystem", s1, F), LAMBDA s2 :
                IF s2.ret # Nil THEN s2
                ELSE createStorageClasses(scs, s2, F))))

\* a teardown that also deletes the classes already marked for deletion
RECURSIVE deleteStorageClassesMarkedToo(_, _, _)
deleteStorageClassesMarkedToo(sccs, st, F) ==
    IF sccs = <<>> THEN st
    ELSE
    LET n == Head(sccs).name
        existing == st.sc[n]
    IN  IF ~existing.exists
        THEN deleteStorageClassesMarkedToo(Tail(sccs),
                 ClassOp(st, "Get", n, "notfound"), F)
        ELSE deleteStorageClassesMarkedToo(Tail(sccs),
                 [ClassOp(ClassOp(st, "Get", n, "ok"), "Delete", n, "ok")
                     EXCEPT !.sc[n] = NoObj], F)

\* cephobjectstores.go 207-241
RECURSIVE deleteStorageClasses(_, _, _)
deleteStorageClasses(sccs, st, F) ==
    IF sccs = <<>> THEN st
    ELSE
    LET n == Head(sccs).name
        existing == st.sc[n]
    IN  IF <<"Get", n>> \in F
        THEN deleteStorageClasses(Tail(sccs), ClassOp(st, "Get", n, "error"), F)
        ELSE IF ~existing.exists
        THEN deleteStorageClasses(Tail(sccs),
                 ClassOp(st, "Get", n, "notfound"), F)
        ELSE IF existing.marked
        THEN deleteStorageClasses(Tail(sccs), ClassOp(st, "Get", n, "ok"), F)
        ELSE IF <<"Delete", n>> \in F
        THEN deleteStorageClasses(Tail(sccs),
                 ClassOp(ClassOp(st, "Get", n, "ok"), "Delete", n, "error"), F)
        ELSE deleteStorageClasses(Tail(sccs),
                 [ClassOp(ClassOp(st, "Get", n, "ok"), "Delete", n, "ok")
                     EXCEPT !.sc[n] = NoObj], F)

ensureDeletedResult(F) ==
    deleteStorageClasses(newStorageClassConfigurations(F), StartClassPass, F)

--------------------------------------------------------------------------
(* Part II: the CephObjectStore ensurer *)

ObjectStoreName == "ocsinit-cephobjectstore"

\* cephobjectstores.go 84-123
newCephObjectStoreInstances ==
    <<[exists |-> TRUE,
       spec |-> [dataPool |-> [failureDomain |-> failureDomain, size |-> 3],
                 metadataPool |-> [failureDomain |-> failureDomain, size |-> 3],
                 gateway |-> [port |-> 80, instances |-> 2]],
       marked |-> FALSE]>>

StoreOp(st, verb, res) ==
    [st EXCEPT !.ops = Append(@,
         ObjOp(verb, "CephObjectStore", ObjectStoreName, res))]

\* an existing store is written only when its spec differs from the desired
restoreCephObjectStoreIfChanged(cephObjectStore, existing, st, F) ==
    IF existing.spec = cephObjectStore.spec THEN st
    ELSE [StoreOp(st, "Update", "ok") EXCEPT
             !.os = [cephObjectStore EXCEPT !.marked = existing.marked]]

\* cephobjectstores.go 62-69: the desired object, under the metadata of the
\* existing one, is written over it
restoreCephObjectStore(cephObjectStore, existing, st, F) ==
    IF <<"Update", "CephObjectStore">> \in F
    THEN Failed(StoreOp(st, "Update", "error"), ErrOf("Update CephObjectStore"))
    ELSE [StoreOp(st, "Update", "ok") EXCEPT
             !.os = [cephObjectStore EXCEPT !.marked = existing.marked]]

\* cephobjectstores.go 46-80; a Get that fails otherwise than with not-found
\* matches no case of the switch
RECURSIVE createCephObjectStores(_, _, _)
createCephObjectStores(stores, st, F) ==
    IF stores = <<>> \/ st.ret # Nil THEN st
    ELSE
    LET cephObjectStore == Head(stores)
        existing == st.os
    IN  IF <<"Get", "CephObjectStore">> \in F
        THEN createCephObjectStores(Tail(stores), StoreOp(st, "Get", "error"), F)
        ELSE IF existing.exists
        THEN IF cfg.strategy["CephObjectStores"] = "init"
             THEN StoreOp(st, "Get", "ok")
             ELSE IF existing.marked
             THEN Failed(StoreOp(st, "Get", "ok"),
                         "marked for deletion: " \o ObjectStoreName)
             ELSE createCephObjectStores(Tail(stores),
                      restoreCephObjectStore(cephObjectStore, existing,
                          StoreOp(st, "Get", "ok"), F), F)
        ELSE IF <<"Create", "CephObjectStore">> \in F
        THEN Failed(StoreOp(StoreOp(st, "Get", "notfound"), "Create", "error"),
                    ErrOf("Create CephObjectStore"))
        ELSE createCephObjectStores(Tail(stores),
                 [StoreOp(StoreOp(st, "Get", "notfound"), "Create", "ok")
                     EXCEPT !.os = cephObjectStore], F)

\* cephobjectstores.go 18-43
ensureCephObjectStoresResult(F) ==
    IF cfg.strategy["CephObjectStores"] = "ignore" THEN StartClassPass
    ELSE IF <<"Get", "Platform">> \in F
    THEN Failed(StartClassPass, ErrOf("Get Platform"))
    ELSE IF avoidObjectStore(cfg.platform) THEN StartClassPass
    ELSE createCephObjectStores(newCephObjectStoreInstances, StartClassPass, F)

--------------------------------------------------------------------------
(* Part II: the operations *)

\* The inputs of one pass: the call that fails, if any.  ensureCreated
\* returns at its first failing call, so one failing call (or a crash after
\* one Delete) per pass covers its outcomes.
ClassFaultPoints ==
    {<<v, n>> : v \in {"Get", "Create", "Delete", "Crash"}, n \in ClassNames}
    \cup {<<"Get", d>> : d \in Dependencies}
    \cup {<<"Get", "Platform">>}

ClassFaults == {{}} \cup {{p} : p \in ClassFaultPoints}

\* ensureDeleted ignores every error and goes on to the next class, which it
\* handles on its own: one failing call per teardown shows each outcome
DeleteFaults ==
    {{}} \cup {{<<v, n>>} : v \in {"Get", "Delete"}, n \in ClassNames}
         \cup {{<<"Get", "Platform">>}}

StoreFaults ==
    {{}, {<<"Get", "Platform">>}, {<<"Get", "CephObjectStore">>},
     {<<"Create", "CephObjectStore">>}, {<<"Update", "CephObjectStore">>}}

ClassPass(op, r) == [op |-> op, ret |-> r.ret, ops |-> r.ops]

NoClassPass == [op |-> "none", ret |-> Nil, ops |-> <<>>]

\* ocsStorageClass.ensureCreated, invoked while no deletion is requested,
\* with the calls in F failing
ensureCreatedWith(F) ==
    /\ ~deleting
    /\ \E r \in {ensureCreatedResult(F)} :
           /\ storageClass' = r.sc
           /\ scPass' = ClassPass("ensureCreated", r)
    /\ UNCHANGED <<objectStore, dep, cfg, failureDomain, deleting, env>>
    /\ UNCHANGED reconcileVars
    /\ UNCHANGED externalVars

ensureCreated == \E F \in ClassFaults : ensureCreatedWith(F)

\* ocsStorageClass.ensureDeleted, invoked on the deletion intent
ensureDeleted ==
    /\ deleting
    /\ \E F \in DeleteFaults :
           \E r \in {ensureDeletedResult(F)} :
               /\ storageClass' = r.sc
               /\ scPass' = ClassPass("ensureDeleted", r)
    /\ UNCHANGED <<objectStore, dep, cfg, failureDomain, deleting, env>>
    /\ UNCHANGED reconcileVars
    /\ UNCHANGED externalVars

ensureCephObjectStores ==
    /\ ~deleting
    /\ \E F \in StoreFaults :
           \E r \in {ensureCephObjectStoresResult(F)} :
               /\ objectStore' = r.os
               /\ scPass' = ClassPass("ensureCephObjectStores", r)
    /\ UNCHANGED <<storageClass, dep, cfg, failureDomain, deleting, env>>
    /\ UNCHANGED reconcileVars
    /\ UNCHANGED externalVars

--------------------------------------------------------------------------
(* Part II: the environment of the StorageClass manager *)

DisturbClasses ==
    /\ env < MaxEnv
    /\ env' = env + 1
    /\ scPass' = NoClassPass

DependencyPhases == <<"absent", "nostatus", "Progressing", "Ready">>

NextPhase(p) ==
    DependencyPhases[1 + CHOOSE i \in 1..3 : DependencyPhases[i] = p]

\* a pool or filesystem is created and reports its way to Ready
DependencyProgresses ==
    /\ \E d \in Dependencies :
           /\ dep[d] # "Ready"
           /\ dep' = [dep EXCEPT ![d] = NextPhase(dep[d])]
    /\ scPass' = NoClassPass
    /\ UNCHANGED <<storageClass, objectStore, cfg, failureDomain, deleting,
                   env>>
    /\ UNCHANGED reconcileVars
    /\ UNCHANGED externalVars

\* a Ready pool or filesystem falls back, loses its status or is deleted
DependencyDegrades ==
    /\ DisturbClasses
    /\ \E d \in Dependencies, i \in 1..3 :
           /\ dep[d] = "Ready"
           /\ dep' = [dep EXCEPT ![d] = DependencyPhases[i]]
    /\ UNCHANGED <<storageClass, objectStore, cfg, failureDomain, deleting>>
    /\ UNCHANGED reconcileVars
    /\ UNCHANGED externalVars

\* parameter maps that differ from p: a changed value, an added key
DriftedParameters(p) ==
    {[p EXCEPT ![CHOOSE k \in DOMAIN p : TRUE] = "drifted"],
     p @@ ("mounter" :> "kernel")}

DesiredClass(n) ==
    IF n = "ocsinit-cephfs"
    THEN newCephFilesystemStorageClassConfiguration.storageClass
    ELSE IF n = "ocsinit-ceph-rbd"
    THEN newCephBlockPoolStorageClassConfiguration(FALSE).storageClass
    ELSE IF n = "ocsinit-ceph-rbd-thick"
    THEN newCephBlockPoolStorageClassConfiguration(TRUE).storageClass
    ELSE newCephOBCStorageClassConfiguration.storageClass

\* somebody else creates or replaces a class with other parameters
StorageClassDrifts ==
    /\ DisturbClasses
    /\ \E n \in ClassNames :
           \E p \in DriftedParameters(DesiredClass(n).Parameters) :
               storageClass' = [storageClass EXCEPT
                                   ![n] = [DesiredClass(n) EXCEPT
                                              !.Parameters = p]]
    /\ UNCHANGED <<objectStore, dep, cfg, failureDomain, deleting>>
    /\ UNCHANGED reconcileVars
    /\ UNCHANGED externalVars

\* somebody else replaces a class by one of another provisioner and the same
\* parameters; the provisioner stands for the fields of a class other than
\* its parameters
StorageClassReplaced ==
    /\ DisturbClasses
    /\ \E n \in ClassNames :
           /\ storageClass[n].exists
           /\ storageClass[n].Provisioner = DesiredClass(n).Provisioner
           /\ storageClass' = [storageClass EXCEPT
                                   ![n].Provisioner = "example.com/other"]
    /\ UNCHANGED <<objectStore, dep, cfg, failureDomain, deleting>>
    /\ UNCHANGED reconcileVars
    /\ UNCHANGED externalVars

\* somebody else deletes a class that a finalizer holds back
StorageClassMarkedForDeletion ==
    /\ DisturbClasses
    /\ \E n \in ClassNames :
           /\ storageClass[n].exists
           /\ ~storageClass[n].marked
           /\ storageClass' = [storageClass EXCEPT ![n].marked = TRUE]
    /\ UNCHANGED <<objectStore, dep, cfg, failureDomain, deleting>>
    /\ UNCHANGED reconcileVars
    /\ UNCHANGED externalVars

\* somebody else deletes the object store, which a finalizer holds back
ObjectStoreMarkedForDeletion ==
    /\ DisturbClasses
    /\ objectStore.exists
    /\ ~objectStore.marked
    /\ objectStore' = [objectStore EXCEPT !.marked = TRUE]
    /\ UNCHANGED <<storageClass, dep, cfg, failureDomain, deleting>>
    /\ UNCHANGED reconcileVars
    /\ UNCHANGED externalVars

FailureDomains == {"zone", "rack"}

\* the failure domain in the top-level status changes
FailureDomainChanges ==
    /\ DisturbClasses
    /\ \E fd \in FailureDomains \ {failureDomain} : failureDomain' = fd
    /\ UNCHANGED <<storageClass, objectStore, dep, cfg, deleting>>
    /\ UNCHANGED reconcileVars
    /\ UNCHANGED externalVars

\* the user asks for the deletion of the top-level object
RequestDeletion ==
    /\ ~deleting
    /\ DisturbClasses
    /\ deleting' = TRUE
    /\ UNCHANGED <<storageClass, objectStore, dep, cfg, failureDomain>>
    /\ UNCHANGED reconcileVars
    /\ UNCHANGED externalVars

\* the user edits spec.managedResources.<kind>.reconcileStrategy
ReconcileStrategyChanges ==
    /\ DisturbClasses
    /\ \E k \in Kinds :
           \E s \in Strategies \ {cfg.strategy[k]} :
               cfg' = [cfg EXCEPT !.strategy[k] = s]
    /\ UNCHANGED <<storageClass, objectStore, dep, failureDomain, deleting>>
    /\ UNCHANGED reconcileVars
    /\ UNCHANGED externalVars

\* the user edits spec.managedResources.<kind>.disableStorageClass
DisableStorageClassChanges ==
    /\ DisturbClasses
    /\ \E k \in Kinds : cfg' = [cfg EXCEPT !.disable[k] = ~cfg.disable[k]]
    /\ UNCHANGED <<storageClass, objectStore, dep, failureDomain, deleting>>
    /\ UNCHANGED reconcileVars
    /\ UNCHANGED externalVars

--------------------------------------------------------------------------
(* Part III: the external-secret synthesizer (src/unnamed/part_000) *)

externalClusterDetailsSecret == "rook-ceph-external-cluster-details"
cephFsStorageClassName == "cephfs"
cephRbdStorageClassName == "ceph-rbd"
cephRgwStorageClassName == "ceph-rgw"
externalCephRgwEndpointKey == "endpoint"
rookCephOperatorConfigName == "rook-ceph-operator-config"

\* part_000 38-42
ExternalResource(kind, name, data) ==
    [kind |-> kind, name |-> name, data |-> data]

\* The payload is the byte string of a JSON array, modelled as the sequence of
\* the encodings of its elements.  An endpoint is the sequence host, ":", port.
ElementEncodings ==
    {"cm", "cm2", "sec", "mon", "monNoPort", "monNoEndpoint", "rbd", "cephfs",
     "rgw", "nfs", "nfsNoData", "garbage"}

\* the record that an element decodes to; "garbage" is not JSON
DecodeElement(e) ==
    CASE e = "cm" ->
             ExternalResource("ConfigMap", "rook-ceph-mon-endpoints",
                 ("data" :> "a=10.0.0.1:6789"))
      [] e = "cm2" ->
             ExternalResource("ConfigMap", "rook-ceph-mon-endpoints",
                 ("data" :> "b=10.0.0.5:6789"))
      [] e = "sec" ->
             ExternalResource("Secret", "rook-ceph-mon",
                 ("admin-secret" :> "key"))
      [] e = "mon" ->
             ExternalResource("CephCluster", "monitoring-endpoint",
                 ("MonitoringEndpoint" :> "10.0.0.2")
                 @@ ("MonitoringPort" :> "9283"))
      [] e = "monNoPort" ->
             ExternalResource("CephCluster", "monitoring-endpoint",
                 ("MonitoringEndpoint" :> "10.0.0.9"))
      [] e = "monNoEndpoint" ->
             ExternalResource("CephCluster", "monitoring-endpoint",
                 ("MonitoringPort" :> "9283"))
      [] e = "rbd" ->
             ExternalResource("StorageClass", cephRbdStorageClassName,
                 ("pool" :> "external-pool"))
      [] e = "cephfs" ->
             ExternalResource("StorageClass", cephFsStorageClassName,
                 ("fsName" :> "external-fs"))
      [] e = "rgw" ->
             ExternalResource("StorageClass", cephRgwStorageClassName,
                 (externalCephRgwEndpointKey :> <<"10.0.0.3", ":", "80">>)
                 @@ ("poolPrefix" :> "default"))
      [] e = "nfs" ->
             ExternalResource("StorageClass", "ceph-nfs",
                 ("server" :> "external-nfs"))
      [] e = "nfsNoData" ->
             ExternalResource("StorageClass", "ceph-nfs", << >>)

\* part_000 123-128: json.Unmarshal into []ExternalResource
Unmarshal(bytes) ==
    IF \E i \in 1..Len(bytes) : bytes[i] = "garbage"
    THEN [err |-> "could not parse json blob", data |-> <<>>]
    ELSE [err |-> Nil,
          data |-> [i \in 1..Len(bytes) |-> DecodeElement(bytes[i])]]

\* a digest that depends on the set of the elements and not on their order
sha512sumOfElements(tobeHashed) ==
    <<"sha512", {tobeHashed[i] : i \in 1..Len(tobeHashed)}>>

\* part_000 73-79: the hexadecimal SHA-512 digest of the bytes, taken to be
\* free of collisions: a digest stands for the bytes it was computed from
sha512sum(tobeHashed) == <<"sha512", tobeHashed>>

\* the secret payloads of the model: complete ones, one of them with other
\* data for the ConfigMap, two that lack a connection-info key, one that is
\* not JSON
Payloads ==
    {<<"cm", "sec", "rbd">>,
     <<"cm2", "sec", "rbd">>,
     <<"sec", "cm", "rbd">>,
     <<"cm", "monNoPort", "sec">>,
     <<"sec", "monNoEndpoint", "cm">>,
     <<"cm", "garbage">>,
     <<"mon", "cephfs", "rgw">>}

\* the calls of the synthesizer that can fail: reads and writes of the store,
\* and the reachability probes
ExternalFaultPoints ==
    {<<"Get", "SecretChecksum">>, <<"Get", "SecretData">>,
     <<"New", "StorageClasses">>, <<"Probe", "Monitoring">>,
     <<"Probe", "RGW">>, <<"Get", "Secret">>,
     <<"Create", "ConfigMap">>, <<"Create", "Secret">>,
     <<"Get", "ocsinit-ceph-rbd">>, <<"Create", "ocsinit-ceph-rbd">>,
     <<"Get", "CephObjectStore">>,
     <<"Update", rookCephOperatorConfigName>>,
     <<"Create", "CephObjectStore">>}

\* The inputs of one pass: the call of the synthesizer that fails, if any,
\* and whether the write of the status that ends the pass fails.  The
\* synthesizer returns at its first failing call.
ExternalFaults ==
    {<<{}, {}>>, <<{}, {"StatusUpdateFinal"}>>}
        \cup {<<{p}, {}>> : p \in ExternalFaultPoints}
        \cup {<<{<<"Probe", "Monitoring">>}, {"StatusUpdateError"}>>,
              <<{<<"Create", "Secret">>}, {"StatusUpdateError"}>>}

\* a run of the synthesizer in progress: store contents, in-memory checksum of
\* the instance, calls so far, and the locals of
\* createExternalStorageClusterResources
StartExternalPass ==
    [sc |-> storageClass, os |-> objectStore, ops |-> <<>>, ret |-> Nil,
     objects |-> externalObjects, csi |-> rookCephOperatorConfig,
     mon |-> monitoringIP, hash |-> scStatus.externalSecretHash,
     same |-> FALSE, availableSCs |-> [i \in 1..3 |-> NoObj],
     enableRookCSICephFS |-> FALSE, extCephObjectStores |-> <<>>]

ExtOp(st, verb, kind, name, res) ==
    [st EXCEPT !.ops = Append(@, ObjOp(verb, kind, name, res))]

\* a comparison that takes every payload for the one already synthesized once
\* a checksum is stored
sameExternalSecretDataOnce(st, F) ==
    IF st.hash # <<>>
    THEN [ExtOp(st, "Get", "Secret", externalClusterDetailsSecret, "ok")
             EXCEPT !.same = TRUE]
    ELSE [ExtOp(st, "Get", "Secret", externalClusterDetailsSecret, "ok")
             EXCEPT !.same = FALSE, !.hash = sha512sum(externalSecret)]

\* part_000 81-101
sameExternalSecretData(st, F) ==
    IF <<"Get", "SecretChecksum">> \in F
    THEN [ExtOp(st, "Get", "Secret", externalClusterDetailsSecret, "error")
             EXCEPT !.same = FALSE]
    ELSE LET s1 == ExtOp(st, "Get", "Secret", externalClusterDetailsSecret,
                         "ok")
             extSecretChecksum == sha512sum(externalSecret)
         IN  IF s1.hash = extSecretChecksum
             THEN [s1 EXCEPT !.same = TRUE]
             ELSE [s1 EXCEPT !.hash = extSecretChecksum, !.same = FALSE]

\* part_000 116-130
retrieveExternalSecretData(st, F) ==
    IF <<"Get", "SecretData">> \in F
    THEN [err |-> ErrOf("Get SecretData"), data |-> <<>>,
          st |-> ExtOp(st, "Get", "Secret", externalClusterDetailsSecret,
                       "error")]
    ELSE [err |-> Unmarshal(externalSecret).err,
          data |-> Unmarshal(externalSecret).data,
          st |-> ExtOp(st, "Get", "Secret", externalClusterDetailsSecret,
                       "ok")]

\* strconv.ParseInt(portStr, 10, 32) on the ports of the model
ParseInt(portStr) ==
    CASE portStr = "80" -> [err |-> Nil, value |-> 80]
      [] portStr = "443" -> [err |-> Nil, value |-> 443]
      [] OTHER -> [err |-> "invalid rgw port", value |-> 0]

\* part_000 132-154
newExternalGatewaySpec(rgwEndpoint) ==
    IF Len(rgwEndpoint) # 3 \/ rgwEndpoint[2] # ":"
    THEN [err |-> "invalid rgw endpoint", spec |-> NoObj]
    ELSE IF rgwEndpoint[1] = ""
    THEN [err |-> "An empty rgw host 'IP' address found", spec |-> NoObj]
    ELSE IF ParseInt(rgwEndpoint[3]).err # Nil
    THEN [err |-> ParseInt(rgwEndpoint[3]).err, spec |-> NoObj]
    ELSE [err |-> Nil,
          spec |-> [externalRgwEndpoints |-> <<rgwEndpoint[1]>>,
                    port |-> ParseInt(rgwEndpoint[3]).value]]

\* part_000 158-190
newExternalCephObjectStoreInstances(rgwEndpoint) ==
    IF rgwEndpoint = <<>>
    THEN [err |-> Nil, stores |-> <<>>]
    ELSE IF newExternalGatewaySpec(rgwEndpoint).err # Nil
    THEN [err |-> newExternalGatewaySpec(rgwEndpoint).err, stores |-> <<>>]
    ELSE [err |-> Nil,
          stores |->
              <<[exists |-> TRUE,
                 spec |-> [gateway |-> newExternalGatewaySpec(rgwEndpoint).spec,
                           healthCheck |-> [disabled |-> FALSE,
                                            interval |-> "60s"]],
                 marked |-> FALSE]>>]

\* part_000 214: the classes by index, file system, block pool, object store
newStorageClasses ==
    <<newCephFilesystemStorageClassConfiguration,
      newCephBlockPoolStorageClassConfiguration(FALSE),
      newCephOBCStorageClassConfiguration>>

cephFileSystemIndex == 1
cephBlockPoolIndex == 2
cephObjectStoreIndex == 3

ExternalObject(kind, d) == [kind |-> kind, name |-> d.name, data |-> d.data]

ExternalObjectExists(objects, kind, name) ==
    \E o \in objects : o.kind = kind /\ o.name = name

\* an upsert: an object whose data differs from the record's is updated
createOrUpdateExternalObject(kind, d, st, F) ==
    IF ExternalObjectExists(st.objects, kind, d.name)
    THEN IF ExternalObject(kind, d) \in st.objects
         THEN ExtOp(st, "Get", kind, d.name, "ok")
         ELSE [ExtOp(ExtOp(st, "Get", kind, d.name, "ok"),
                     "Update", kind, d.name, "ok")
                  EXCEPT !.objects =
                      {o \in @ : ~(o.kind = kind /\ o.name = d.name)}
                          \cup {ExternalObject(kind, d)}]
    ELSE [ExtOp(ExtOp(st, "Get", kind, d.name, "notfound"),
                "Create", kind, d.name, "ok")
             EXCEPT !.objects = @ \cup {ExternalObject(kind, d)}]

\* part_000 346-362 and 365-381: get, and create when not found
getOrCreateExternalObject(kind, d, st, F) ==
    IF <<"Get", kind>> \in F
    THEN Failed(ExtOp(st, "Get", kind, d.name, "error"), ErrOf("Get " \o kind))
    ELSE IF ExternalObjectExists(st.objects, kind, d.name)
    THEN ExtOp(st, "Get", kind, d.name, "ok")
    ELSE LET s1 == ExtOp(st, "Get", kind, d.name, "notfound")
         IN  IF <<"Create", kind>> \in F
             THEN Failed(ExtOp(s1, "Create", kind, d.name, "error"),
                         ErrOf("Create " \o kind))
             ELSE [ExtOp(s1, "Create", kind, d.name, "ok")
                      EXCEPT !.objects = @ \cup {ExternalObject(kind, d)}]

\* part_000 346-362
createExternalStorageClusterConfigMap(d, st, F) ==
    getOrCreateExternalObject("ConfigMap", d, st, F)

\* part_000 365-381
createExternalStorageClusterSecret(d, st, F) ==
    getOrCreateExternalObject("Secret", d, st, F)

\* a dispatch that takes the endpoint before it looks for the port
dispatchCephClusterAssigningFirst(d, st, F) ==
    IF "MonitoringEndpoint" \notin DOMAIN d.data
    THEN Failed(st, "Monitoring Endpoint not present in the external cluster secret")
    ELSE IF "MonitoringPort" \notin DOMAIN d.data
    THEN Failed([st EXCEPT !.mon = d.data["MonitoringEndpoint"]],
                "Monitoring Port not present in the external cluster secret")
    ELSE IF <<"Probe", "Monitoring">> \in F
    THEN Failed(st, ErrOf("Probe Monitoring"))
    ELSE [st EXCEPT !.mon = d.data["MonitoringEndpoint"]]

\* part_000 237-260
dispatchCephCluster(d, st, F) ==
    IF "MonitoringEndpoint" \notin DOMAIN d.data
    THEN Failed(st, "Monitoring Endpoint not present in the external cluster secret")
    ELSE IF "MonitoringPort" \notin DOMAIN d.data
    THEN Failed(st, "Monitoring Port not present in the external cluster secret")
    ELSE IF <<"Probe", "Monitoring">> \in F
    THEN Failed(st, ErrOf("Probe Monitoring"))
    ELSE [st EXCEPT !.mon = d.data["MonitoringEndpoint"]]

\* part_000 318-323: the record's data is laid over the parameters of the class
setAvailable(index, data, st) ==
    [st EXCEPT !.availableSCs[index] =
        [newStorageClasses[index] EXCEPT
            !.storageClass.Parameters = data @@ @]]

\* the runtime error of a write through a nil pointer: the process dies
NilDereference == "panic: invalid memory address or nil pointer dereference"

\* part_000 286-323.  For a name that is none of the three, index stays 0 and
\* sc stays nil: the first write of line 321 goes through the nil pointer,
\* and with no data to write line 323 stores nil at index 0, the first class
\* of the list (1 in the numbering of the model).
dispatchStorageClass(d, st, F) ==
    IF d.name = cephFsStorageClassName
    THEN setAvailable(cephFileSystemIndex, d.data,
                      [st EXCEPT !.enableRookCSICephFS = TRUE])
    ELSE IF d.name = cephRbdStorageClassName
    THEN setAvailable(cephBlockPoolIndex, d.data, st)
    ELSE IF d.name = cephRgwStorageClassName
    THEN LET rgwEndpoint ==
                 IF externalCephRgwEndpointKey \in DOMAIN d.data
                 THEN d.data[externalCephRgwEndpointKey] ELSE <<>>
             rest == [k \in DOMAIN d.data \ {externalCephRgwEndpointKey}
                         |-> d.data[k]]
         IN  IF <<"Probe", "RGW">> \in F
             THEN Failed(ExtOp(st, "Probe", "RGW", d.name, "error"),
                         ErrOf("Probe RGW"))
             ELSE With(ExtOp(st, "Probe", "RGW", d.name, "ok"), LAMBDA s1 :
                 IF newExternalCephObjectStoreInstances(rgwEndpoint).err # Nil
                 THEN Failed(s1,
                          newExternalCephObjectStoreInstances(rgwEndpoint).err)
                 ELSE setAvailable(cephObjectStoreIndex, rest,
                          [s1 EXCEPT !.extCephObjectStores =
                              newExternalCephObjectStoreInstances(rgwEndpoint)
                                  .stores]))
    ELSE IF DOMAIN d.data # {}
    THEN Failed(st, NilDereference)
    ELSE [st EXCEPT !.availableSCs[1] = NoObj]

\* part_000 229-325: one iteration of the loop over the records
dispatchRecord(d, st, F) ==
    With(ExtOp(st, "Dispatch", d.kind, d.name, "ok"), LAMBDA s1 :
        CASE d.kind = "CephCluster" -> dispatchCephCluster(d, s1, F)
          [] d.kind = "ConfigMap" ->
                 createExternalStorageClusterConfigMap(d, s1, F)
          [] d.kind = "Secret" -> createExternalStorageClusterSecret(d, s1, F)
          [] d.kind = "StorageClass" -> dispatchStorageClass(d, s1, F)
          [] OTHER -> s1)

\* part_000 229-325: the loop returns at the first error
RECURSIVE dispatchRecords(_, _, _)
dispatchRecords(data, st, F) ==
    IF data = <<>> \/ st.ret # Nil THEN st
    ELSE With(dispatchRecord(Head(data), st, F),
              LAMBDA s1 : dispatchRecords(Tail(data), s1, F))

\* part_000 45-62
setRookCSICephFS(enableDisableFlag, st, F) ==
    IF <<"Get", rookCephOperatorConfigName>> \in F
    THEN Failed(ExtOp(st, "Get", "ConfigMap", rookCephOperatorConfigName,
                      "error"), ErrOf("Get " \o rookCephOperatorConfigName))
    ELSE LET s1 == ExtOp(st, "Get", "ConfigMap", rookCephOperatorConfigName,
                         "ok")
             enableDisableFlagStr == IF enableDisableFlag THEN "true"
                                     ELSE "false"
         IN  IF s1.csi = enableDisableFlagStr THEN s1
             ELSE IF <<"Update", rookCephOperatorConfigName>> \in F
             THEN Failed(ExtOp(s1, "Update", "ConfigMap",
                               rookCephOperatorConfigName, "error"),
                         ErrOf("Update " \o rookCephOperatorConfigName))
             ELSE [ExtOp(s1, "Update", "ConfigMap",
                         rookCephOperatorConfigName, "ok")
                      EXCEPT !.csi = enableDisableFlagStr]

\* part_000 326-342: the classes named by the records, then the CSI flag, then
\* the object store
finishExternalStorageClusterResources(st, F) ==
    IF st.ret # Nil THEN st
    ELSE
    With(createStorageClasses(
             SelectSeq(<<st.availableSCs[1], st.availableSCs[2],
                         st.availableSCs[3]>>, LAMBDA a : a # NoObj),
             st, F), LAMBDA s1 :
        IF s1.ret # Nil THEN s1
        ELSE With(setRookCSICephFS(s1.enableRookCSICephFS, s1, F), LAMBDA s2 :
            IF s2.ret # Nil \/ s2.extCephObjectStores = <<>> THEN s2
            ELSE createCephObjectStores(s2.extCephObjectStores, s2, F)))

\* part_000 207-343; the entry into the function is logged as a call
createExternalStorageClusterResources(st, F) ==
    With(ExtOp(st, "Call", "createExternalStorageClusterResources", "", "ok"),
         LAMBDA s0 :
        IF <<"New", "StorageClasses">> \in F
        THEN Failed(s0, ErrOf("New StorageClasses"))
        ELSE With(retrieveExternalSecretData(s0, F), LAMBDA got :
            IF got.err # Nil THEN Failed(got.st, got.err)
            ELSE With(dispatchRecords(got.data, got.st, F), LAMBDA s1 :
                     finishExternalStorageClusterResources(s1, F))))

\* part_000 194-204
ensureExternalStorageClusterResources(st, F) ==
    With(sameExternalSecretData(st, F), LAMBDA s1 :
        IF s1.same THEN s1
        ELSE createExternalStorageClusterResources(s1, F))

\* the ensurer sequence of a pass in external mode
ExternalEnsurers == <<"ensureExternalStorageClusterResources">>

\* reconcile.go 145-167 around the synthesizer: its checksum is part of the
\* in-memory status that the failure path and the end of the pass write
ConvergeExternal(st, x, G) ==
    With([st EXCEPT !.rconds = {}, !.ran = ExternalEnsurers,
                    !.ops = @ \o x.ops, !.err = x.ret,
                    !.mem.externalSecretHash = x.hash], LAMBDA s1 :
        IF s1.err # Nil THEN FailPass(s1, G) ELSE Finish(s1, G))

\* a pass that ends in a runtime error: nothing after the failing statement
\* runs, no status is written, and the memory of the process is lost
Crash(st, x) ==
    Return([st EXCEPT !.rconds = {}, !.ran = ExternalEnsurers,
                      !.ops = @ \o x.ops, !.err = x.ret], x.ret)

PassOf(r) ==
    [ret |-> r.ret, ops |-> r.ops, ran |-> r.ran, err |-> r.err,
     signal |-> r.signal]

\* reconcile.go 83-223 in external mode, with the calls in F failing in the
\* synthesizer and those in G in the writes of the status
ReconcileExternalWith(F, G) ==
    /\ \E r0 \in {EnsureInitialization(
                     InitConditions(FetchInstance(StartPass, G), G), G)} :
         IF r0.ret # "running"
         THEN /\ scStatus' = r0.status
              /\ scinit' = r0.scinit
              /\ rConditions' = r0.rconds
              /\ readyFile' = r0.ready
              /\ pass' = PassOf(r0)
              /\ scPass' = NoClassPass
              /\ UNCHANGED <<storageClass, objectStore, externalObjects,
                             rookCephOperatorConfig, monitoringIP>>
         ELSE \E x \in {ensureExternalStorageClusterResources(
                           StartExternalPass, F)} :
                \E r \in {IF x.ret = NilDereference
                          THEN Crash(r0, x)
                          ELSE ConvergeExternal(r0, x, G)} :
                  /\ scStatus' = r.status
                  /\ scinit' = r.scinit
                  /\ rConditions' = r.rconds
                  /\ readyFile' = r.ready
                  /\ pass' = PassOf(r)
                  /\ scPass' =
                       ClassPass("ensureExternalStorageClusterResources", x)
                  /\ storageClass' = x.sc
                  /\ objectStore' = x.os
                  /\ externalObjects' = x.objects
                  /\ rookCephOperatorConfig' = x.csi
                  /\ monitoringIP' = IF x.ret = NilDereference THEN ""
                                     ELSE x.mon
    /\ UNCHANGED <<scExists, scSpec, cephCluster, env, dep, cfg,
                   failureDomain, deleting, externalSecret>>

ReconcileExternal ==
    \E FG \in ExternalFaults : ReconcileExternalWith(FG[1], FG[2])

\* the environment of the synthesizer
DisturbExternal ==
    /\ env < MaxEnv
    /\ env' = env + 1
    /\ pass' = NoPass
    /\ scPass' = NoClassPass

\* the administrator of the external cluster replaces the payload by
\* another one of P
ExternalSecretChangesAmong(P) ==
    /\ DisturbExternal
    /\ \E p \in P \ {externalSecret} : externalSecret' = p
    /\ UNCHANGED <<scExists, scSpec, scStatus, scinit, cephCluster,
                   rConditions, readyFile>>
    /\ UNCHANGED <<storageClass, objectStore, dep, cfg, failureDomain,
                   deleting>>
    /\ UNCHANGED <<externalObjects, rookCephOperatorConfig, monitoringIP>>

\* somebody deletes a storage class
ExternalStorageClassChanges ==
    /\ DisturbExternal
    /\ \E n \in ClassNames :
           /\ storageClass[n].exists
           /\ storageClass' = [storageClass EXCEPT ![n] = NoObj]
    /\ UNCHANGED <<scExists, scSpec, scStatus, scinit, cephCluster,
                   rConditions, readyFile>>
    /\ UNCHANGED <<objectStore, dep, cfg, failureDomain, deleting>>
    /\ UNCHANGED externalVars

ExternalSecretChanges == ExternalSecretChangesAmong(Payloads)

\* the operator's process is restarted: the fields of the reconciler, which
\* live in memory only, are those of a new reconciler; the store is untouched
ProcessRestarts ==
    /\ DisturbExternal
    /\ monitoringIP' = ""
    /\ rConditions' = {}
    /\ UNCHANGED <<scExists, scSpec, scStatus, scinit, cephCluster,
                   readyFile>>
    /\ UNCHANGED <<storageClass, objectStore, dep, cfg, failureDomain,
                   deleting>>
    /\ UNCHANGED <<externalSecret, externalObjects, rookCephOperatorConfig>>

--------------------------------------------------------------------------
(* Initial states and specifications *)

\* every kind under strategy manage with its storage class enabled, internal
\* mode, a platform with object storage
DefaultConfig ==
    [strategy |-> [k \in Kinds |-> "manage"],
     disable |-> [k \in Kinds |-> FALSE],
     external |-> FALSE, platform |-> "None"]

Configs ==
    {[DefaultConfig EXCEPT !.external = e, !.platform = p] :
        e \in BOOLEAN, p \in Platforms}

\* the installation's departures from the default count against MaxEnv
Deviations(c) ==
    (IF c.external THEN 1 ELSE 0) + (IF c.platform # "None" THEN 1 ELSE 0)

ClassStart ==
    /\ storageClass = [n \in ClassNames |-> NoObj]
    /\ objectStore = NoObj
    /\ dep = [d \in Dependencies |-> "Ready"]
    /\ failureDomain = "zone"
    /\ deleting = FALSE
    /\ scPass = NoClassPass

ClassIdle ==
    /\ ClassStart
    /\ cfg = DefaultConfig

ClassInit ==
    /\ ClassStart
    /\ cfg \in Configs
    /\ env = Deviations(cfg)

\* the installer has created the top-level object; nothing else exists yet
ReconcileStart ==
    /\ scExists = TRUE
    /\ scStatus = EmptyStatus
    /\ scinit = FALSE
    /\ cephCluster = NoObj
    /\ rConditions = {}
    /\ readyFile = FALSE
    /\ pass = NoPass

ReconcileIdle ==
    /\ ReconcileStart
    /\ scSpec = [hostNetwork |-> FALSE,
                 storageDeviceSets |->
                     <<[name |-> "a", count |-> 1, placement |-> "unset"]>>]

\* internal mode: no external secret and nothing made from one
ExternalStart ==
    /\ externalObjects = {}
    /\ rookCephOperatorConfig = ""
    /\ monitoringIP = ""

ExternalIdle ==
    /\ ExternalStart
    /\ externalSecret = <<>>

\* the reconciler of Part I
Init ==
    /\ ReconcileIdle
    /\ ClassIdle
    /\ ExternalIdle
    /\ env = 0

Next ==
    \/ Reconcile
    \/ ScaleDeviceSet
    \/ AddDeviceSet
    \/ CephClusterReports
    \/ DeleteStorageCluster

Spec == Init /\ [][Next]_vars

\* the StorageClass manager of Part II
InitSC ==
    /\ ReconcileIdle
    /\ ClassInit
    /\ ExternalIdle

NextSC ==
    \/ ensureCreated
    \/ ensureDeleted
    \/ DependencyProgresses
    \/ DependencyDegrades
    \/ StorageClassDrifts
    \/ StorageClassReplaced
    \/ StorageClassMarkedForDeletion
    \/ RequestDeletion
    \/ ReconcileStrategyChanges
    \/ DisableStorageClassChanges

SpecSC == InitSC /\ [][NextSC]_vars

\* the CephObjectStore ensurer next to the StorageClass manager, while the
\* dependencies are Ready and no deletion is requested
NextOS ==
    \/ ensureCephObjectStores
    \/ ensureCreated
    \/ FailureDomainChanges
    \/ ObjectStoreMarkedForDeletion
    \/ StorageClassMarkedForDeletion
    \/ StorageClassDrifts
    \/ ReconcileStrategyChanges

SpecOS == InitSC /\ [][NextOS]_vars

\* the StorageClass manager under Manage, re-run until a pass meets no failing
\* call, while the pool and the filesystem report their way to Ready
NextLive ==
    \/ ensureCreated
    \/ DependencyProgresses
    \/ DependencyDegrades
    \/ StorageClassDrifts

LiveSC ==
    /\ InitSC
    /\ [][NextLive]_vars
    /\ WF_vars(ensureCreatedWith({}))
    /\ WF_vars(DependencyProgresses)

\* the synthesizer of Part III: external mode, the installer has created the
\* top-level object and the secret
InitExt ==
    /\ ReconcileIdle
    /\ ClassStart
    /\ cfg = [DefaultConfig EXCEPT !.external = TRUE]
    /\ ExternalStart
    /\ externalSecret \in Payloads
    /\ env = 0

NextExt ==
    \/ ReconcileExternal
    \/ ExternalSecretChanges
    \/ ExternalStorageClassChanges

SpecExt == InitExt /\ [][NextExt]_vars

\* payloads that exercise the dispatch of the storage-class records: an
\* object-gateway record after a ConfigMap, a complete external cluster, and
\* records of a name that is none of the three
DispatchPayloads ==
    {<<"cm", "rgw">>,
     <<"mon", "cephfs", "rgw">>,
     <<"cephfs", "nfs">>,
     <<"cephfs", "nfsNoData", "rbd">>}

\* the synthesizer over these payloads, in a process that can restart
InitDispatch ==
    /\ ReconcileIdle
    /\ ClassStart
    /\ cfg = [DefaultConfig EXCEPT !.external = TRUE]
    /\ ExternalStart
    /\ externalSecret \in DispatchPayloads
    /\ env = 0

NextDispatch ==
    \/ ReconcileExternal
    \/ ExternalSecretChangesAmong(DispatchPayloads)
    \/ ProcessRestarts

SpecDispatch == InitDispatch /\ [][NextDispatch]_vars

--------------------------------------------------------------------------
(* One reconciler, two top-level objects *)

\* The worker pool runs Reconcile for distinct object keys side by side on
\* one ReconcileStorageCluster, whose field conditions they share.  In this
\* specification scStatus, scinit, cephCluster and pass hold one value per
\* object key, and rConditions and readyFile are those of the reconciler.
\* A pass is three steps, each of them a stretch of Reconcile between two
\* accesses to r.conditions by another pass.
ObjectKeys == {"ocs-a", "ocs-b"}

\* the pass for the key k as it starts; own is the conditions that the
\* ensurers of this pass produce
StartPassOf(k) ==
    [mem |-> scStatus[k], status |-> scStatus[k], scinit |-> scinit[k],
     cc |-> cephCluster[k], rconds |-> rConditions, ready |-> readyFile,
     ops |-> <<>>, ran |-> <<>>, err |-> Nil, ret |-> "running",
     signal |-> "none", own |-> {}]

\* reconcile.go 85-147: from the fetch to r.conditions = nil
BeginPass(k) ==
    /\ pass[k].ret # "running"
    /\ \E r0 \in {EnsureInitialization(
                     InitConditions(FetchInstance(StartPassOf(k), {}), {}),
                     {})} :
         \E r \in {IF r0.ret = "running" THEN [r0 EXCEPT !.rconds = {}]
                   ELSE r0} :
           /\ scStatus' = [scStatus EXCEPT ![k] = r.status]
           /\ scinit' = [scinit EXCEPT ![k] = r.scinit]
           /\ rConditions' = r.rconds
           /\ pass' = [pass EXCEPT ![k] = r]
    /\ UNCHANGED <<scExists, scSpec, cephCluster, readyFile, env>>
    /\ UNCHANGED <<storageClass, objectStore, dep, cfg, failureDomain,
                   deleting, scPass>>
    /\ UNCHANGED externalVars

\* reconcile.go 149-167: the ensurers of the pass for k append to r.conditions
EnsurerStep(k) ==
    /\ pass[k].ret = "running"
    /\ pass[k].ran = <<>>
    /\ \E st \in {[pass[k] EXCEPT !.rconds = rConditions,
                                  !.cc = cephCluster[k]]} :
         \E r \in {RunEnsurers(1, st, {})} :
           /\ rConditions' = r.rconds
           /\ cephCluster' = [cephCluster EXCEPT ![k] = r.cc]
           /\ pass' = [pass EXCEPT ![k] =
                          [r EXCEPT !.own =
                              RunEnsurers(1, [st EXCEPT !.rconds = {}], {})
                                  .rconds]]
    /\ UNCHANGED <<scExists, scSpec, scStatus, scinit, readyFile, env>>
    /\ UNCHANGED <<storageClass, objectStore, dep, cfg, failureDomain,
                   deleting, scPass>>
    /\ UNCHANGED externalVars

\* reconcile.go 168-222: the pass for k reads r.conditions, decides, merges
\* and writes the status
FinishPass(k) ==
    /\ pass[k].ret = "running"
    /\ pass[k].ran # <<>>
    /\ \E r \in {Finish([pass[k] EXCEPT !.rconds = rConditions,
                                        !.ready = readyFile], {})} :
           /\ scStatus' = [scStatus EXCEPT ![k] = r.status]
           /\ readyFile' = r.ready
           /\ pass' = [pass EXCEPT ![k] = r]
    /\ UNCHANGED <<scExists, scSpec, scinit, cephCluster, rConditions, env>>
    /\ UNCHANGED <<storageClass, objectStore, dep, cfg, failureDomain,
                   deleting, scPass>>
    /\ UNCHANGED externalVars

\* the storage engine reports a state on the CephCluster child of k
ChildReports(k) ==
    /\ cephCluster[k] # NoObj
    /\ env < MaxEnv
    /\ env' = env + 1
    /\ \E s \in CephClusterStates :
           /\ s # cephCluster[k].state
           /\ cephCluster' = [cephCluster EXCEPT ![k].state = s]
    /\ UNCHANGED <<scExists, scSpec, scStatus, scinit, rConditions,
                   readyFile, pass>>
    /\ UNCHANGED classVars
    /\ UNCHANGED externalVars

\* the installer has created both top-level objects; nothing else exists yet
InitWorkers ==
    /\ scExists = TRUE
    /\ scStatus = [k \in ObjectKeys |-> EmptyStatus]
    /\ scinit = [k \in ObjectKeys |-> FALSE]
    /\ cephCluster = [k \in ObjectKeys |-> NoObj]
    /\ rConditions = {}
    /\ readyFile = FALSE
    /\ pass = [k \in ObjectKeys |-> NoPass]
    /\ scSpec = [hostNetwork |-> FALSE,
                 storageDeviceSets |->
                     <<[name |-> "a", count |-> 1, placement |-> "unset"]>>]
    /\ ClassIdle
    /\ ExternalIdle
    /\ env = 0

NextWorkers ==
    \E k \in ObjectKeys :
        \/ BeginPass(k)
        \/ EnsurerStep(k)
        \/ FinishPass(k)
        \/ ChildReports(k)

SpecWorkers == InitWorkers /\ [][NextWorkers]_vars

--------------------------------------------------------------------------
(* Properties of Reconcile and ensureCephCluster *)

\* the calls of a pass that write to objects of one kind
WritesOf(ops, kind) ==
    {i \in 1..Len(ops) : ops[i].kind = kind
                         /\ ops[i].verb \in {"Create", "Update", "Delete"}}

\* the last pass ended on the failure path of the ensurer sequence
EnsurerFailed == pass.err # Nil

\* the failure path's write of the status reached the store
ErrorStatusWritten ==
    /\ EnsurerFailed
    /\ pass.ops[Len(pass.ops)] = Op("StatusUpdate", "StorageCluster", "ok")

\* C1: fail-fast.  When an ensurer of the sequence returns an error, the pass
\* invokes no later ensurer and makes no further call except the one write of
\* the status; Reconcile returns that same error; and, when that write reaches
\* the store, the stored status has phase Error and a ReconcileComplete=False
\* condition with reason ReconcileFailed whose message carries the error.
FailFast ==
    EnsurerFailed =>
        /\ pass.ret = pass.err
        /\ Len(pass.ran) <= Len(Ensurers)
        /\ pass.ran = SubSeq(Ensurers, 1, Len(pass.ran))
        /\ LET n == Len(pass.ops)
           IN  /\ n >= 2
               /\ pass.ops[n].verb = "StatusUpdate"
               /\ pass.ops[n - 1].kind = "CephCluster"
               /\ pass.ops[n - 1].res = "error"
               /\ \A i \in 1..(n - 2) : pass.ops[i].res # "error"
        /\ ErrorStatusWritten =>
               /\ scStatus.phase = "Error"
               /\ \E c \in scStatus.conditions :
                      /\ c.type = "ReconcileComplete"
                      /\ c.status = "False"
                      /\ c.reason = "ReconcileFailed"
                      /\ c.message = ErrorMessage(pass.err)
                      /\ c.message[2] = pass.err

\* an ensurer failed and the Error status is in the store
FailFastReached ==
    /\ ErrorStatusWritten
    /\ scStatus.phase = "Error"
    /\ pass.ret = ErrOf("UpdateCephCluster")

\* the CephCluster child is present with the spec the pass would compute
CephClusterConverged ==
    /\ cephCluster.exists
    /\ cephCluster.spec = newCephCluster(scSpec)

\* the step is a Reconcile pass: every other action of Next clears the pass record
ReconcileStep == pass'.ret # "none"

\* the last pass ran ensureCephCluster and it returned no error
EnsurerSucceeded == pass.ran = Ensurers /\ pass.err = Nil

\* C2: idempotence of ensureCephCluster.  A pass that finds the CephCluster
\* present with a spec equal to the desired one issues no Create, Update or
\* Delete on it and leaves it as it is; and a pass that follows, with no
\* change in between, a pass whose ensureCephCluster succeeded finds it so and
\* performs no CephCluster write.
EnsureCephClusterIdempotent ==
    [][ReconcileStep =>
          /\ CephClusterConverged =>
                 /\ WritesOf(pass'.ops, "CephCluster") = {}
                 /\ cephCluster' = cephCluster
          /\ EnsurerSucceeded =>
                 /\ CephClusterConverged
                 /\ WritesOf(pass'.ops, "CephCluster") = {}]_vars

\* a second pass in a row has read the converged CephCluster and written nothing
SecondPassReached ==
    /\ CephClusterConverged
    /\ EnsurerSucceeded
    /\ pass.ops = <<Op("Get", "StorageCluster", "ok"),
                    Op("Get", "StorageClusterInitialization", "ok"),
                    Op("Get", "CephCluster", "ok"),
                    Op("StatusUpdate", "StorageCluster", "ok")>>
    /\ "CephCluster" \in scStatus.relatedObjects

\* the last pass found the initialization child absent and created it
InitializationCreated ==
    \E i \in 1..Len(pass.ops) :
        pass.ops[i] = Op("Create", "StorageClusterInitialization", "ok")

\* C10: one pass does initialization and convergence.  The pass that creates
\* the StorageClusterInitialization child goes on to run the ensurer sequence,
\* so that when it returns no error the CephCluster child exists, with
\* monitor count 3.
InitializationAndConvergence ==
    InitializationCreated =>
        /\ pass.ran = Ensurers
        /\ pass.ret = Nil =>
               /\ cephCluster.exists
               /\ cephCluster.spec.monCount = 3

\* the pass read the CephCluster child and found it present
FoundCephCluster(ops) ==
    \E i \in 1..Len(ops) : ops[i] = Op("Get", "CephCluster", "ok")

\* the pass wrote a new spec to the CephCluster child
UpdatedCephCluster(ops) ==
    \E i \in 1..Len(ops) : ops[i] = Op("Update", "CephCluster", "ok")

\* the last call of the pass is a write of the status that reached the store
StatusPersisted(ops) ==
    /\ Len(ops) > 0
    /\ ops[Len(ops)] = Op("StatusUpdate", "StorageCluster", "ok")

\* C11: drift convergence.  A pass whose ensureCephCluster finds the child with
\* a spec that differs from the desired one issues exactly one write on it, an
\* Update; when the Update succeeds the stored spec equals the desired spec and
\* the rest of the child is as it was; and the pass that follows a successful
\* Update, with no change in between, issues no CephCluster write.
DriftConvergence ==
    [][ReconcileStep =>
          /\ (FoundCephCluster(pass'.ops) /\ ~CephClusterConverged) =>
                 /\ Cardinality(WritesOf(pass'.ops, "CephCluster")) = 1
                 /\ \A i \in WritesOf(pass'.ops, "CephCluster") :
                        pass'.ops[i].verb = "Update"
                 /\ UpdatedCephCluster(pass'.ops) =>
                        /\ cephCluster'.spec = newCephCluster(scSpec)
                        /\ cephCluster' =
                             [cephCluster EXCEPT !.spec = newCephCluster(scSpec)]
          /\ UpdatedCephCluster(pass.ops) =>
                 /\ CephClusterConverged
                 /\ WritesOf(pass'.ops, "CephCluster") = {}
                 /\ cephCluster' = cephCluster]_vars

\* a drifted CephCluster has been updated to the desired spec by the last pass
DriftConverged ==
    /\ UpdatedCephCluster(pass.ops)
    /\ CephClusterConverged
    /\ Len(cephCluster.spec.storageClassDeviceSets) = 2

\* C12: non-empty conditions.  A pass that fetches the top-level object and
\* finds no conditions writes the status as its second call, before any call
\* on a child; when no later status write follows, the stored status has
\* phase Progressing and a Progressing=True condition; and after a pass that
\* fetched the object and did not fail on that write the stored conditions are
\* not empty.
NonEmptyConditions ==
    [][(ReconcileStep /\ pass'.ops[1] = Op("Get", "StorageCluster", "ok")) =>
          /\ scStatus.conditions = {} =>
                 /\ Len(pass'.ops) >= 2
                 /\ pass'.ops[2].verb = "StatusUpdate"
                 /\ pass'.ops[2].kind = "StorageCluster"
                 /\ (/\ pass'.ops[2].res = "ok"
                     /\ \A i \in 3..Len(pass'.ops) :
                            pass'.ops[i].verb # "StatusUpdate") =>
                        /\ scStatus'.phase = "Progressing"
                        /\ \E c \in scStatus'.conditions :
                               c.type = "Progressing" /\ c.status = "True"
          /\ pass'.ops # <<Op("Get", "StorageCluster", "ok"),
                           Op("StatusUpdate", "StorageCluster", "error")>> =>
                 scStatus'.conditions # {}]_vars

\* the first pass has persisted the Progressing status and gone on to the
\* initialization child
ConditionsInitialized ==
    /\ Len(pass.ops) >= 3
    /\ pass.ops[2] = Op("StatusUpdate", "StorageCluster", "ok")
    /\ pass.ops[3].kind = "StorageClusterInitialization"
    /\ scStatus.phase = "Progressing"
    /\ scStatus.conditions # {}

\* C13: absent top-level object.  When the fetch reports not-found the pass
\* returns no error, and when it reports another error the pass returns that
\* error; in both cases the fetch is the only call of the pass and no object,
\* no status and no readiness signal is written.
AbsentIsNoOp ==
    [][ReconcileStep =>
          /\ ~scExists => pass'.ops[1].res \in {"notfound", "error"}
          /\ pass'.ops[1] # Op("Get", "StorageCluster", "ok") =>
                 /\ Len(pass'.ops) = 1
                 /\ pass'.ops[1].verb = "Get"
                 /\ pass'.ops[1].kind = "StorageCluster"
                 /\ pass'.ops[1].res = "notfound" =>
                        ~scExists /\ pass'.ret = Nil
                 /\ pass'.ops[1].res = "error" =>
                        pass'.ret = ErrOf("GetStorageCluster")
                 /\ pass'.signal = "none"
                 /\ pass'.ran = <<>>
                 /\ UNCHANGED <<scExists, scSpec, scStatus, scinit,
                                cephCluster, rConditions, readyFile>>]_vars

\* a pass has met the top-level object absent and returned success
AbsentReached ==
    /\ ~scExists
    /\ pass.ops = <<Op("Get", "StorageCluster", "notfound")>>
    /\ pass.ret = Nil

\* every ensurer of the pass succeeded
AllEnsurersSucceeded(p) == p.ran = Ensurers /\ p.err = Nil

CompleteCondition ==
    Condition("ReconcileComplete", "True", "ReconcileCompleted",
              "Reconcile completed successfully")

\* C14: ready outcome.  A pass whose ensurers all succeed with an empty
\* accumulator calls Set on the readiness signal; when Set succeeds the signal
\* is asserted and the pass ends with a write of the status, which, when it
\* reaches the store, carries phase Ready and the reconcile-complete condition.
\* Set is called by no pass whose accumulator is non-empty or in which an
\* ensurer failed, and the signal goes up in no other way.
ReadyOutcome ==
    [][ReconcileStep =>
          /\ (AllEnsurersSucceeded(pass') /\ rConditions' = {}) =>
                 /\ pass'.signal \in {"Set", "SetError"}
                 /\ pass'.signal = "Set" =>
                        /\ readyFile'
                        /\ pass'.ops[Len(pass'.ops)].verb = "StatusUpdate"
                        /\ StatusPersisted(pass'.ops) =>
                               /\ scStatus'.phase = "Ready"
                               /\ CompleteCondition \in scStatus'.conditions
          /\ pass'.signal \in {"Set", "SetError"} =>
                 AllEnsurersSucceeded(pass') /\ rConditions' = {}
          /\ (readyFile' /\ ~readyFile) => pass'.signal = "Set"]_vars

\* a pass has asserted readiness and persisted phase Ready
ReadyReached ==
    /\ pass.signal = "Set"
    /\ readyFile
    /\ StatusPersisted(pass.ops)
    /\ scStatus.phase = "Ready"
    /\ rConditions = {}

\* C15: readiness retraction.  A pass whose ensurers all succeeded with a
\* non-empty accumulator never calls Set; when its final write of the status
\* reaches the store, the stored conditions hold every accumulated condition
\* and the reconcile-complete condition, and if they hold Upgradeable=False the
\* readiness signal has been retracted and the stored phase is NotReady, and
\* otherwise the signal is untouched and the stored phase is Ready.
ReadinessRetraction ==
    [][(/\ ReconcileStep
        /\ AllEnsurersSucceeded(pass')
        /\ rConditions' # {}) =>
          /\ pass'.signal \in {"none", "Unset", "UnsetError"}
          /\ StatusPersisted(pass'.ops) =>
                 /\ rConditions' \subseteq scStatus'.conditions
                 /\ CompleteCondition \in scStatus'.conditions
                 /\ IF IsStatusConditionFalse(scStatus'.conditions,
                                              "Upgradeable")
                    THEN /\ pass'.signal = "Unset"
                         /\ ~readyFile'
                         /\ scStatus'.phase = "NotReady"
                    ELSE /\ pass'.signal = "none"
                         /\ readyFile' = readyFile
                         /\ scStatus'.phase = "Ready"]_vars

\* a pass has retracted a readiness that an earlier pass asserted
ReadinessRetracted ==
    /\ pass.signal = "Unset"
    /\ ~readyFile
    /\ StatusPersisted(pass.ops)
    /\ scStatus.phase = "NotReady"
    /\ IsStatusConditionFalse(scStatus.conditions, "Upgradeable")
    /\ rConditions # {}

\* the positions in the log of the pass where ensureCephCluster set the
\* in-memory phase to Expanding
ExpandingSet(ops) ==
    {i \in 1..Len(ops) : ops[i] = Op("SetPhase", "StorageCluster", "Expanding")}

\* C26: Expanding is visible.  A pass in which ensureCephCluster detects a
\* capacity increase, in which every ensurer succeeds and whose write of the
\* status reaches the store, leaves the phase Expanding in the stored status.
ExpandingVisible ==
    [][(/\ ReconcileStep
        /\ ExpandingSet(pass'.ops) # {}
        /\ pass'.err = Nil
        /\ StatusPersisted(pass'.ops)) =>
          scStatus'.phase = "Expanding"]_vars

\* the counts of the device sets of a CephCluster spec, by name
CountOf(spec, name) ==
    {spec.storageClassDeviceSets[i].count :
        i \in {j \in 1..Len(spec.storageClassDeviceSets) :
                  spec.storageClassDeviceSets[j].name = name}}

\* C27: capacity-increase detection.  A pass whose ensureCephCluster finds the
\* child with a spec that differs from the desired one sets the in-memory
\* phase to Expanding, once and before it issues the Update, exactly when
\* some device set of the existing spec has the name of a device set of the
\* desired spec whose count is strictly greater; no other pass sets it.
CapacityIncreaseDetection ==
    [][ReconcileStep =>
          LET set == ExpandingSet(pass'.ops)
              drift == FoundCephCluster(pass'.ops) /\ ~CephClusterConverged
              increase ==
                  \E name \in DeviceSetNames :
                      \E c \in CountOf(cephCluster.spec, name) :
                          \E d \in CountOf(newCephCluster(scSpec), name) :
                              d > c
          IN  /\ set # {} <=> (drift /\ increase)
              /\ Cardinality(set) <= 1
              /\ \A i \in set :
                     /\ i < Len(pass'.ops)
                     /\ pass'.ops[i + 1].verb = "Update"
                     /\ pass'.ops[i + 1].kind = "CephCluster"]_vars

\* a pass has updated the child without setting Expanding: a device set was
\* scaled down, or one was added
NoExpansionDetected ==
    /\ UpdatedCephCluster(pass.ops)
    /\ ExpandingSet(pass.ops) = {}

\* a pass has set Expanding and then updated the child, while another device
\* set keeps its count
ExpansionDetected ==
    /\ UpdatedCephCluster(pass.ops)
    /\ ExpandingSet(pass.ops) # {}
    /\ Len(scSpec.storageDeviceSets) = 2

\* the pass created the CephCluster child
CreatedCephCluster(ops) ==
    \E i \in 1..Len(ops) : ops[i] = Op("Create", "CephCluster", "ok")

\* C28: placement defaulting.  In the spec that a pass writes to the
\* CephCluster child, a device set whose placement the top-level spec leaves
\* unset has the default OSD placement and a device set whose placement the
\* top-level spec sets has that placement.
PlacementDefaulting ==
    [][(/\ ReconcileStep
        /\ CreatedCephCluster(pass'.ops) \/ UpdatedCephCluster(pass'.ops)) =>
          /\ Len(cephCluster'.spec.storageClassDeviceSets)
               = Len(scSpec.storageDeviceSets)
          /\ \A i \in 1..Len(scSpec.storageDeviceSets) :
                 cephCluster'.spec.storageClassDeviceSets[i].placement =
                     IF scSpec.storageDeviceSets[i].placement = "unset"
                     THEN defaultOSDPlacement
                     ELSE scSpec.storageDeviceSets[i].placement]_vars

\* the pass read the CephCluster child and the read failed
FetchOfCephClusterFailed(ops) ==
    \E i \in 1..Len(ops) : ops[i] = Op("Get", "CephCluster", "error")

\* a condition that says that the child does not report a state yet
NotReporting(c) ==
    /\ c.reason = "CephClusterStatus"
    /\ c.message = "CephCluster resource is not reporting status"

\* C29: three distinguishable outcomes of ensureCephCluster.  (1) The child is
\* present with the desired spec and an empty state: the ensurer returns no
\* error, writes nothing to the child, records it as a related object and
\* leaves in the accumulator not-reporting conditions only, none of them
\* Degraded.  (2) The child is present with the desired spec and a state: the
\* ensurer returns no error, records the child, and leaves in the accumulator
\* the conditions that the state maps to, none of them not-reporting; the
\* pass does not take the failure path.  (3) The fetch of the child fails:
\* the pass returns that error, the fetch is the last call before the write
\* of the Error status, the child is not written, and no related object and
\* no condition is added.
ThreeOutcomes ==
    [][ReconcileStep =>
          /\ (FoundCephCluster(pass'.ops) /\ CephClusterConverged
                  /\ cephCluster.state = "") =>
                 /\ pass'.err = Nil
                 /\ WritesOf(pass'.ops, "CephCluster") = {}
                 /\ rConditions' # {}
                 /\ \A c \in rConditions' :
                        NotReporting(c) /\ c.type # "Degraded"
                 /\ StatusPersisted(pass'.ops) =>
                        /\ "CephCluster" \in scStatus'.relatedObjects
                        /\ scStatus'.phase # "Error"
          /\ (FoundCephCluster(pass'.ops) /\ CephClusterConverged
                  /\ cephCluster.state # "") =>
                 /\ pass'.err = Nil
                 /\ WritesOf(pass'.ops, "CephCluster") = {}
                 /\ rConditions'
                      = MapCephClusterNegativeConditions({}, cephCluster)
                 /\ \A c \in rConditions' : ~NotReporting(c)
                 /\ cephCluster.state = "Error" =>
                        \E c \in rConditions' :
                            c.type = "Degraded" /\ c.status = "True"
                 /\ StatusPersisted(pass'.ops) =>
                        /\ "CephCluster" \in scStatus'.relatedObjects
                        /\ scStatus'.phase # "Error"
          /\ FetchOfCephClusterFailed(pass'.ops) =>
                 /\ pass'.err # Nil
                 /\ pass'.ret = pass'.err
                 /\ WritesOf(pass'.ops, "CephCluster") = {}
                 /\ cephCluster' = cephCluster
                 /\ rConditions' = {}
                 /\ scStatus'.relatedObjects = scStatus.relatedObjects
                 /\ \A i \in 1..Len(pass'.ops) :
                        pass'.ops[i] = Op("Get", "CephCluster", "error") =>
                            /\ i = Len(pass'.ops) - 1
                            /\ pass'.ops[i + 1].verb = "StatusUpdate"]_vars

\* a pass has met a child in state Error, gone on to the end and stored a
\* Degraded condition with a phase other than Error
NegativeOutcomeReached ==
    /\ pass.err = Nil
    /\ pass.ret = Nil
    /\ cephCluster # NoObj
    /\ cephCluster.state = "Error"
    /\ \E c \in rConditions : c.type = "Degraded" /\ c.status = "True"
    /\ \E c \in scStatus.conditions : c.type = "Degraded" /\ c.status = "True"
    /\ "CephCluster" \in scStatus.relatedObjects
    /\ scStatus.phase # "Error"

\* the Create of the initialization child reported that it already exists
InitializationAlreadyExists(ops) ==
    \E i \in 1..Len(ops) :
        ops[i] = Op("Create", "StorageClusterInitialization", "exists")

\* C31: idempotent get-or-create of the initialization child.  A pass whose
\* Get of the StorageClusterInitialization reports not-found and whose Create
\* then reports already-exists returns no error.
IdempotentInitialization ==
    [][(ReconcileStep /\ InitializationAlreadyExists(pass'.ops)) =>
          pass'.ret = Nil]_vars

--------------------------------------------------------------------------
(* Properties of the StorageClass manager and the CephObjectStore ensurer *)

\* the calls of a pass on one object, in order
\* the write of the status on the failure path of the pass failed
ErrorStatusWriteFailed(p) ==
    /\ p.err # Nil
    /\ \E i \in 1..Len(p.ops) :
           p.ops[i] = Op("StatusUpdate", "StorageCluster", "error")

\* C40: the ensurer's error is never masked.  When an ensurer fails and the
\* write of the Error status fails as well, Reconcile returns the error of
\* the ensurer and not that of the write, the failed write is the last call
\* of the pass, and neither the stored status nor the readiness signal is
\* changed after it.
ErrorNeverMasked ==
    [][(ReconcileStep /\ ErrorStatusWriteFailed(pass')) =>
          LET n == Len(pass'.ops)
          IN  /\ pass'.ret = pass'.err
              /\ pass'.ret \in {ErrOf(p) : p \in EnsurerFaultPoints}
              /\ pass'.ops[n] = Op("StatusUpdate", "StorageCluster", "error")
              /\ \A i \in 1..(n - 1) : pass'.ops[i].verb # "StatusUpdate"
              /\ pass'.signal = "none"
              /\ scStatus' = scStatus
              /\ readyFile' = readyFile]_vars

\* an ensurer failed, and so did the write of the Error status
ErrorStatusWriteFailedReached ==
    /\ ErrorStatusWriteFailed(pass)
    /\ pass.ret = ErrOf("GetCephCluster")
    /\ scStatus.phase # "Error"

\* C35: accumulator isolation under concurrency.  A pass that has run its
\* ensurers and ended has decided on, and merged into the status of its
\* object, exactly the conditions that its own ensurers produced.
AccumulatorIsolation ==
    \A k \in ObjectKeys :
        (pass[k].ret = Nil /\ pass[k].ran # <<>>) =>
            pass[k].rconds = pass[k].own

OpsOn(ops, kind, name) ==
    SelectSeq(ops, LAMBDA o : o.kind = kind /\ o.name = name)

ClassOpsOf(ops, n) == OpsOn(ops, "StorageClass", n)

StoreOpsOf(ops) == OpsOn(ops, "CephObjectStore", ObjectStoreName)

VerbsOf(ops) == {ops[i].verb : i \in 1..Len(ops)}

\* the kind of ManagedResources a storage class belongs to
KindOfClass(n) ==
    IF n = "ocsinit-cephfs" THEN "CephFilesystems"
    ELSE IF n = "ocsinit-ceph-rgw" THEN "CephObjectStores"
    ELSE "CephBlockPools"

\* the step is a run of the named operation
StepOf(op) == scPass'.op = op

ObjectStoreDesired == newCephObjectStoreInstances[1]

ObjectStoreConverged ==
    /\ objectStore.exists
    /\ objectStore.spec = ObjectStoreDesired.spec

ManagedClasses ==
    LET sccs == newStorageClassConfigurations({})
    IN  {sccs[i] : i \in {j \in 1..Len(sccs) :
                             /\ sccs[j].reconcileStrategy # "ignore"
                             /\ ~sccs[j].disable}}

ClassesConverged ==
    \A scc \in ManagedClasses :
        /\ storageClass[scc.name].exists
        /\ storageClass[scc.name].Parameters = scc.storageClass.Parameters

\* C4: idempotence of the StorageClass manager.  Once every managed class
\* exists with the desired parameter map, a pass issues no Create and no
\* Delete (nothing but Gets) on storage classes and leaves them as they are.
StorageClassesIdempotent ==
    [][(StepOf("ensureCreated") /\ ClassesConverged)
           => /\ \A i \in 1..Len(scPass'.ops) :
                     scPass'.ops[i].kind = "StorageClass"
                         => scPass'.ops[i].verb = "Get"
              /\ storageClass' = storageClass]_vars

\* with nothing changed since the installation, a pass has read the four
\* classes an earlier pass created and has written nothing
StorageClassesIdempotentReached ==
    /\ env = 0
    /\ scPass.op = "ensureCreated"
    /\ scPass.ret = Nil
    /\ ClassesConverged
    /\ \A n \in ClassNames :
           ClassOpsOf(scPass.ops, n) = <<ObjOp("Get", "StorageClass", n, "ok")>>

\* C5: Ignore is absolute.  No operation issues a call on the storage class
\* or the object store of a kind whose strategy is ignore.
IgnoreIsAbsolute ==
    \A k \in Kinds :
        cfg.strategy[k] = "ignore" =>
            \A i \in 1..Len(scPass.ops) :
                LET o == scPass.ops[i]
                IN  /\ ~(o.kind = "StorageClass" /\ KindOfClass(o.name) = k)
                    /\ ~(o.kind = "CephObjectStore" /\ k = "CephObjectStores")

\* C6: Init is create-once.  While the strategy of a kind is init, a pass
\* issues no Update and no Delete on the kind's storage classes and object
\* store, issues a Create only for one that is absent, and leaves one that
\* exists as it is, whatever the desired parameters or spec have become.
InitIsCreateOnce ==
    [][(StepOf("ensureCreated") \/ StepOf("ensureCephObjectStores"))
           => /\ \A n \in ClassNames :
                     cfg.strategy[KindOfClass(n)] = "init" =>
                         LET ops == ClassOpsOf(scPass'.ops, n)
                         IN  /\ VerbsOf(ops) \cap {"Update", "Delete"} = {}
                             /\ Cardinality({i \in 1..Len(ops) :
                                    ops[i].verb = "Create"}) <= 1
                             /\ storageClass[n].exists =>
                                    /\ "Create" \notin VerbsOf(ops)
                                    /\ storageClass'[n] = storageClass[n]
              /\ cfg.strategy["CephObjectStores"] = "init" =>
                     LET ops == StoreOpsOf(scPass'.ops)
                     IN  /\ VerbsOf(ops) \cap {"Update", "Delete"} = {}
                         /\ Cardinality({i \in 1..Len(ops) :
                                ops[i].verb = "Create"}) <= 1
                         /\ objectStore.exists =>
                                /\ "Create" \notin VerbsOf(ops)
                                /\ objectStore' = objectStore]_vars

\* under init, a pass has found the object store with a spec that is no
\* longer the desired one and has left it alone
InitIsCreateOnceReached ==
    /\ cfg.strategy["CephObjectStores"] = "init"
    /\ objectStore.exists
    /\ ~ObjectStoreConverged
    /\ scPass.op = "ensureCephObjectStores"
    /\ scPass.ret = Nil
    /\ StoreOpsOf(scPass.ops) =
           <<ObjOp("Get", "CephObjectStore", ObjectStoreName, "ok")>>

\* class n is handled under strategy manage and drifts from the desired class
Drifting(n) ==
    /\ storageClass[n].exists
    /\ ~storageClass[n].marked
    /\ \E scc \in ManagedClasses :
           /\ scc.name = n
           /\ scc.reconcileStrategy = "manage"
           /\ parametersDiffer(scc.storageClass, storageClass[n])

\* C7: recreate-on-drift.  A pass that finds a class drifting under Manage
\* issues one Delete of it and, when the Delete succeeds and the process goes
\* on, one Create that stores the desired class, and nothing else on it; no
\* operation ever issues an Update on a storage class.
RecreateOnDrift ==
    [][/\ \A i \in 1..Len(scPass'.ops) :
              ~(scPass'.ops[i].kind = "StorageClass"
                    /\ scPass'.ops[i].verb = "Update")
       /\ StepOf("ensureCreated") =>
              \A n \in ClassNames :
                  LET ops == ClassOpsOf(scPass'.ops, n)
                  IN  (Drifting(n) /\ ops # <<>> /\ ops[1].res = "ok") =>
                          /\ Len(ops) \in {2, 3}
                          /\ ops[2].verb = "Delete"
                          /\ Len(ops) = 3 =>
                                 /\ ops[2].res = "ok"
                                 /\ ops[3].verb = "Create"
                          /\ (ops[2].res = "ok" /\ scPass'.ret # "crash")
                                 => Len(ops) = 3
                          /\ (Len(ops) = 3 /\ ops[3].res = "ok") =>
                                 storageClass'[n] = DesiredClass(n)]_vars

\* a pass has deleted and created anew a class found with other parameters
RecreateOnDriftReached ==
    /\ env = 1
    /\ scPass.op = "ensureCreated"
    /\ scPass.ret = Nil
    /\ \E n \in ClassNames :
           /\ ClassOpsOf(scPass.ops, n) =
                  <<ObjOp("Get", "StorageClass", n, "ok"),
                    ObjOp("Delete", "StorageClass", n, "ok"),
                    ObjOp("Create", "StorageClass", n, "ok")>>
           /\ storageClass[n] = DesiredClass(n)

\* a dependency whose storage classes are enabled is not Ready
GateClosed ==
    \E d \in Dependencies :
        ~cfg.disable[KindOfDependency(d)] /\ dep[d] # "Ready"

\* a pass could not fetch a dependency
GateFetchFailed ==
    \E i \in 1..Len(scPass.ops) :
        scPass.ops[i].kind \in Dependencies /\ scPass.ops[i].res # "ok"

\* C9: dependency gate.  When the block pool or the filesystem, its storage
\* classes not disabled, cannot be fetched, has no status or is in a phase
\* other than Ready, ensureCreated returns an error and has issued no call on
\* any storage class.
DependencyGate ==
    (scPass.op = "ensureCreated" /\ (GateClosed \/ GateFetchFailed)) =>
        /\ scPass.ret # Nil
        /\ \A i \in 1..Len(scPass.ops) : scPass.ops[i].kind # "StorageClass"

\* a pass has stopped at the filesystem, which is found but not yet Ready
DependencyGateReached ==
    /\ scPass.op = "ensureCreated"
    /\ dep["CephBlockPool"] = "Ready"
    /\ dep["CephFilesystem"] = "Progressing"
    /\ scPass.ret # Nil
    /\ Len(scPass.ops) = 2

\* the last pass stopped between the Delete and the Create of class n
CrashWindow(n) ==
    /\ scPass.op = "ensureCreated"
    /\ LET ops == ClassOpsOf(scPass.ops, n)
       IN  /\ Len(ops) >= 2
           /\ ops[2].verb = "Delete"
           /\ ops[2].res = "ok"
           /\ Len(ops) = 2 \/ ops[3].res = "error"

\* C8: crash-window recovery.  After a pass that stopped between the Delete
\* and the Create of a drifting class (the process ended, or the Create
\* failed) the class is absent; a pass that comes to an absent class issues a
\* Create of it, which on success stores the desired class; and under
\* repeated passes the class comes to exist as desired.
CrashWindowRecovery ==
    /\ [](\A n \in ClassNames : CrashWindow(n) => ~storageClass[n].exists)
    /\ [][StepOf("ensureCreated") =>
              \A n \in ClassNames :
                  LET ops == ClassOpsOf(scPass'.ops, n)
                  IN  (~storageClass[n].exists /\ ops # <<>>
                           /\ ops[1].res = "notfound") =>
                          /\ Len(ops) = 2
                          /\ ops[2].verb = "Create"
                          /\ ops[2].res = "ok" =>
                                 storageClass'[n] = DesiredClass(n)]_vars
    /\ \A n \in ClassNames :
           CrashWindow(n) ~> (storageClass[n] = DesiredClass(n))

\* after one drift, a pass has found absent a class that an earlier pass had
\* deleted, and has created it as desired next to the untouched others
CrashWindowRecovered ==
    /\ env = 1
    /\ scPass.op = "ensureCreated"
    /\ scPass.ret = Nil
    /\ \E n \in ClassNames :
           /\ ClassOpsOf(scPass.ops, n) =
                  <<ObjOp("Get", "StorageClass", n, "notfound"),
                    ObjOp("Create", "StorageClass", n, "ok")>>
           /\ storageClass[n] = DesiredClass(n)
           /\ \A m \in ClassNames \ {n} :
                  ClassOpsOf(scPass.ops, m) =
                      <<ObjOp("Get", "StorageClass", m, "ok")>>

--------------------------------------------------------------------------
(* Properties of the external-secret synthesizer *)

ExternalStep == StepOf("ensureExternalStorageClusterResources")

\* the run entered createExternalStorageClusterResources
SynthesisCalled(ops) == \E i \in 1..Len(ops) : ops[i].verb = "Call"

\* the records that the run dispatched
Dispatched(ops) == {i \in 1..Len(ops) : ops[i].verb = "Dispatch"}

\* the objects that the run created
CreatedBy(ops) ==
    {i \in 1..Len(ops) : ops[i].verb = "Create" /\ ops[i].res = "ok"}

\* C16: atomic synthesis failure.  When createExternalStorageClusterResources
\* returns an error, the pass has created no ConfigMap, no Secret, no
\* StorageClass and no object store from a record of the payload.
AtomicSynthesisFailure ==
    [][(/\ ExternalStep
        /\ SynthesisCalled(scPass'.ops)
        /\ scPass'.ret # Nil) =>
          /\ CreatedBy(scPass'.ops) = {}
          /\ externalObjects' = externalObjects
          /\ storageClass' = storageClass
          /\ objectStore' = objectStore]_vars

\* the last pass ended on the failure path and its Error status is stored
SynthesisFailureRecorded ==
    /\ scPass.op = "ensureExternalStorageClusterResources"
    /\ scPass.ret # Nil
    /\ StatusPersisted(pass.ops)
    /\ scStatus.phase = "Error"

\* C17: a failed synthesis is retried.  The pass that follows, over the same
\* payload, a pass whose synthesis failed and whose Error status is stored
\* runs the synthesis again; and a pass whose synthesis fails leaves no
\* checksum in the stored status that equals the digest of the payload.
FailedSynthesisRetried ==
    [][ExternalStep =>
          /\ SynthesisFailureRecorded => SynthesisCalled(scPass'.ops)
          /\ scPass'.ret # Nil =>
                 scStatus'.externalSecretHash # sha512sum(externalSecret)]_vars

\* C18: checksum short-circuit.  Every pass starts the synthesizer with a read
\* of the secret; createExternalStorageClusterResources is entered exactly
\* when that read fails or the digest of the payload differs from the checksum
\* in the status; when it is not entered the run makes no other call,
\* dispatches no record, creates and changes nothing and returns no error; and
\* a payload other than the one whose digest is in the status is dispatched.
ChecksumShortCircuit ==
    [][ExternalStep =>
          /\ Len(scPass'.ops) >= 1
          /\ scPass'.ops[1].verb = "Get"
          /\ scPass'.ops[1].kind = "Secret"
          /\ SynthesisCalled(scPass'.ops) <=>
                 \/ scPass'.ops[1].res = "error"
                 \/ sha512sum(externalSecret) # scStatus.externalSecretHash
          /\ ~SynthesisCalled(scPass'.ops) =>
                 /\ Len(scPass'.ops) = 1
                 /\ Dispatched(scPass'.ops) = {}
                 /\ scPass'.ret = Nil
                 /\ UNCHANGED <<storageClass, objectStore, externalObjects,
                                rookCephOperatorConfig, monitoringIP,
                                externalSecret>>
                 /\ scStatus'.externalSecretHash = scStatus.externalSecretHash
          /\ (\E p \in Payloads :
                  /\ scStatus.externalSecretHash = sha512sum(p)
                  /\ p # externalSecret) =>
                 SynthesisCalled(scPass'.ops)]_vars

\* a pass over a payload synthesized before has skipped the synthesis
ShortCircuitReached ==
    /\ scPass.op = "ensureExternalStorageClusterResources"
    /\ scPass.ops = <<ObjOp("Get", "Secret", externalClusterDetailsSecret,
                            "ok")>>
    /\ scStatus.externalSecretHash = sha512sum(externalSecret)
    /\ storageClass["ocsinit-ceph-rbd"].exists
    /\ externalObjects # {}

\* the storage classes that the records of a payload name
ExternalClassNames(bytes) ==
    {newStorageClasses[cephFileSystemIndex].name : i \in
         {i \in 1..Len(bytes) : bytes[i] = "cephfs"}}
    \cup {newStorageClasses[cephBlockPoolIndex].name : i \in
              {i \in 1..Len(bytes) : bytes[i] = "rbd"}}
    \cup {newStorageClasses[cephObjectStoreIndex].name : i \in
              {i \in 1..Len(bytes) : bytes[i] = "rgw"}}

SameRecords(p, q) ==
    /\ Len(p) = Len(q)
    /\ {p[i] : i \in 1..Len(p)} = {q[i] : i \in 1..Len(q)}

\* C20 as stated: order-insensitive checksum.  A payload that holds the
\* records of the payload whose digest is in the status, in any order, has
\* that digest, and a pass over it does not run the synthesis.
OrderInsensitiveChecksum ==
    [][ExternalStep =>
          \A p \in Payloads :
              (/\ SameRecords(p, externalSecret)
               /\ scStatus.externalSecretHash = sha512sum(p)
               /\ scPass'.ops[1].res = "ok") =>
                  /\ sha512sum(p) = sha512sum(externalSecret)
                  /\ ~SynthesisCalled(scPass'.ops)]_vars

\* C20 amended: the digest is a function of the bytes.  Two payloads have the
\* same digest exactly when they are the same byte string, and a pass over a
\* payload that holds the records of the payload whose digest is in the
\* status in another order runs the synthesis again.
ChecksumOfBytes ==
    [][ExternalStep =>
          \A p \in Payloads :
              /\ sha512sum(p) = sha512sum(externalSecret) <=> p = externalSecret
              /\ (/\ SameRecords(p, externalSecret)
                  /\ p # externalSecret
                  /\ scStatus.externalSecretHash = sha512sum(p)) =>
                     SynthesisCalled(scPass'.ops)]_vars

\* the records of a synthesized payload, reordered, have been dispatched again:
\* every object they name was found, none was created
ReorderResynthesized ==
    /\ scPass.op = "ensureExternalStorageClusterResources"
    /\ externalSecret = <<"sec", "cm", "rbd">>
    /\ scStatus.externalSecretHash = sha512sum(externalSecret)
    /\ Cardinality(Dispatched(scPass.ops)) = 3
    /\ CreatedBy(scPass.ops) = {}
    /\ scPass.ret = Nil

\* a connection-info record without one of its two keys
LacksMonitoringKey(d) ==
    /\ d.kind = "CephCluster"
    /\ \/ "MonitoringEndpoint" \notin DOMAIN d.data
       \/ "MonitoringPort" \notin DOMAIN d.data

\* the error of part_000 238-253 for such a record
MissingKeyError(d) ==
    IF "MonitoringEndpoint" \notin DOMAIN d.data
    THEN "Monitoring Endpoint not present in the external cluster secret"
    ELSE "Monitoring Port not present in the external cluster secret"

\* C21: scenario B.  When the synthesis dispatches a CephCluster record that
\* lacks the MonitoringEndpoint key or the MonitoringPort key, it returns the
\* error that names the missing key, the dispatch of that record is the last
\* call of the run (no object is read or created from it, no later record is
\* dispatched), and the monitoring endpoint of the reconciler is unchanged.
ScenarioB ==
    [][ExternalStep =>
          LET data == Unmarshal(externalSecret).data
              n == Cardinality(Dispatched(scPass'.ops))
          IN  \A k \in 1..n :
                  LacksMonitoringKey(data[k]) =>
                      /\ k = n
                      /\ scPass'.ret = MissingKeyError(data[k])
                      /\ pass'.err = MissingKeyError(data[k])
                      /\ scPass'.ops[Len(scPass'.ops)]
                           = ObjOp("Dispatch", "CephCluster", data[k].name,
                                   "ok")
                      /\ monitoringIP' = monitoringIP]_vars

\* a pass over a payload without the port has failed, after an earlier
\* payload had set the monitoring endpoint
ScenarioBReached ==
    /\ scPass.op = "ensureExternalStorageClusterResources"
    /\ scPass.ret = "Monitoring Port not present in the external cluster secret"
    /\ monitoringIP = "10.0.0.2"
    /\ scStatus.phase = "Error"

\* the positions of the calls of a run on the object of a kind and a name
ExternalOpsOn(ops, kind, name) ==
    {i \in 1..Len(ops) :
        /\ ops[i].kind = kind
        /\ ops[i].name = name
        /\ ops[i].verb # "Dispatch"}

\* C22: ConfigMap and Secret records are get-or-create only.  A run that
\* dispatches a ConfigMap or Secret record whose object exists makes one call
\* on it, a Get, and leaves the object as it is, whatever the data of the
\* record; when the object is absent the run makes one Get and one Create on
\* it and, when the Create succeeds, the object holds the data of the record.
\* No run removes or changes an object made from a record.
GetOrCreateOnly ==
    [][ExternalStep =>
          /\ externalObjects \subseteq externalObjects'
          /\ \A i \in Dispatched(scPass'.ops) :
                LET kind == scPass'.ops[i].kind
                    name == scPass'.ops[i].name
                    on == ExternalOpsOn(scPass'.ops, kind, name)
                    verbs == {scPass'.ops[j].verb : j \in on}
                IN  (/\ kind \in {"ConfigMap", "Secret"}
                     /\ \A j \in on : ~(scPass'.ops[j].verb = "Get"
                                          /\ scPass'.ops[j].res = "error")) =>
                       IF ExternalObjectExists(externalObjects, kind, name)
                       THEN /\ Cardinality(on) = 1
                            /\ verbs = {"Get"}
                            /\ {o \in externalObjects' :
                                    o.kind = kind /\ o.name = name}
                                 = {o \in externalObjects :
                                       o.kind = kind /\ o.name = name}
                       ELSE /\ Cardinality(on) = 2
                            /\ verbs = {"Get", "Create"}
                            /\ \A j \in on :
                                   (/\ scPass'.ops[j].verb = "Create"
                                    /\ scPass'.ops[j].res = "ok") =>
                                      \E k \in 1..Len(externalSecret) :
                                          ExternalObject(kind,
                                              Unmarshal(externalSecret).data[k])
                                            \in externalObjects']_vars

\* a payload with other data for an existing ConfigMap has been synthesized:
\* the ConfigMap was found, nothing was created, and it holds its first data
GetOrCreateOnlyReached ==
    /\ scPass.op = "ensureExternalStorageClusterResources"
    /\ externalSecret = <<"cm2", "sec", "rbd">>
    /\ Cardinality(Dispatched(scPass.ops)) = 3
    /\ scPass.ret = Nil
    /\ CreatedBy(scPass.ops) = {}
    /\ ExternalObject("ConfigMap", DecodeElement("cm")) \in externalObjects
    /\ ExternalObject("ConfigMap", DecodeElement("cm2")) \notin externalObjects

--------------------------------------------------------------------------
(* Properties of the list of StorageClass configurations and of teardown *)

\* the names of a list of configurations
ConfigurationNames(sccs) == {sccs[i].name : i \in 1..Len(sccs)}

\* the classes that a run read
ClassesRead(ops) ==
    {ops[i].name : i \in {j \in 1..Len(ops) :
        ops[j].verb = "Get" /\ ops[j].kind = "StorageClass"}}

\* the outcomes of the lookup of the platform: it succeeds, it fails
PlatformLookups == {{}, {<<"Get", "Platform">>}}

\* C23: object-storage class presence.  Whether the lookup of the platform
\* succeeds or fails, the list of newStorageClassConfigurations holds the
\* filesystem class and the two block classes, and it holds the
\* object-storage class exactly when external mode is enabled or the platform
\* is determined, without error, not to be one that avoids object storage;
\* ensureDeleted reads the classes of such a list.
ObjectStorageClassPresence ==
    [][(StepOf("ensureDeleted") \/ StepOf("ensureCreated")) =>
          /\ \A F \in PlatformLookups :
                LET names == ConfigurationNames(newStorageClassConfigurations(F))
                IN  /\ {"ocsinit-cephfs", "ocsinit-ceph-rbd",
                         "ocsinit-ceph-rbd-thick"} \subseteq names
                    /\ "ocsinit-ceph-rgw" \in names <=>
                           \/ cfg.external
                           \/ /\ <<"Get", "Platform">> \notin F
                              /\ ~avoidObjectStore(cfg.platform)
                    /\ names \subseteq ClassNames
          /\ StepOf("ensureDeleted") =>
                /\ {"ocsinit-cephfs", "ocsinit-ceph-rbd",
                     "ocsinit-ceph-rbd-thick"} \subseteq ClassesRead(scPass'.ops)
                /\ cfg.external => "ocsinit-ceph-rgw" \in ClassesRead(scPass'.ops)
                /\ (~cfg.external /\ avoidObjectStore(cfg.platform)) =>
                       "ocsinit-ceph-rgw" \notin ClassesRead(scPass'.ops)]_vars

\* a teardown in internal mode on a platform with object storage has left
\* out the object-storage class: the platform could not be determined
ObjectStorageClassLeftOut ==
    /\ scPass.op = "ensureDeleted"
    /\ ~cfg.external
    /\ ~avoidObjectStore(cfg.platform)
    /\ ClassesRead(scPass.ops) = {"ocsinit-cephfs", "ocsinit-ceph-rbd",
                                  "ocsinit-ceph-rbd-thick"}

\* Manage policy everywhere, every storage class enabled, internal mode
ManageEverywhere ==
    /\ \A k \in Kinds : cfg.strategy[k] = "manage" /\ ~cfg.disable[k]
    /\ ~cfg.external

\* C24: scenario A, class count.  On a fresh cluster under Manage everywhere
\* in internal mode, a pass of ensureCreated that finds the pool or the
\* filesystem not Ready fails and creates no class, and a pass that finds
\* both Ready and meets no failing call creates exactly 2 classes on a
\* platform that avoids object storage and exactly 3 on any other.
ScenarioAClassCount ==
    [][(/\ StepOf("ensureCreated")
        /\ ManageEverywhere
        /\ \A n \in ClassNames : ~storageClass[n].exists) =>
          /\ (\E d \in Dependencies : dep[d] # "Ready") =>
                 /\ scPass'.ret # Nil
                 /\ CreatedBy(scPass'.ops) = {}
          /\ ((\A d \in Dependencies : dep[d] = "Ready")
                  /\ scPass'.ret = Nil) =>
                 Cardinality(CreatedBy(scPass'.ops)) =
                     IF avoidObjectStore(cfg.platform) THEN 2 ELSE 3]_vars

\* the positions of the calls of a run, of one verb, on a storage class
ClassCalls(ops, verb, n) ==
    {i \in 1..Len(ops) :
        ops[i].verb = verb /\ ops[i].kind = "StorageClass" /\ ops[i].name = n}

\* C25: teardown.  ensureDeleted reads, once each, the classes of the list
\* that newStorageClassConfigurations computes, as ensureCreated does; for a
\* class that it finds present and not marked for deletion it issues exactly
\* one Delete, which removes the class when it succeeds; for a class that is
\* marked for deletion or absent, or that it cannot read, it issues no
\* Delete and leaves it as it is; it touches no other class and it reports
\* success in every case.
Teardown ==
    [][StepOf("ensureDeleted") =>
          /\ scPass'.ret = Nil
          /\ \E F \in DeleteFaults :
                 ClassesRead(scPass'.ops)
                     = ConfigurationNames(newStorageClassConfigurations(F))
          /\ \A n \in ClassNames :
                LET gets == ClassCalls(scPass'.ops, "Get", n)
                    deletes == ClassCalls(scPass'.ops, "Delete", n)
                IN  /\ Cardinality(gets) <= 1
                    /\ n \in ClassesRead(scPass'.ops) <=> gets # {}
                    /\ ClassCalls(scPass'.ops, "Create", n) = {}
                    /\ IF /\ gets # {}
                          /\ \A i \in gets : scPass'.ops[i].res = "ok"
                          /\ storageClass[n].exists
                          /\ ~storageClass[n].marked
                       THEN /\ Cardinality(deletes) = 1
                            /\ \A i \in deletes :
                                   IF scPass'.ops[i].res = "ok"
                                   THEN ~storageClass'[n].exists
                                   ELSE storageClass'[n] = storageClass[n]
                       ELSE /\ deletes = {}
                            /\ storageClass'[n] = storageClass[n]]_vars

\* a teardown has deleted a class, found another one marked for deletion and
\* left it, and found a third one absent
TeardownReached ==
    /\ scPass.op = "ensureDeleted"
    /\ scPass.ret = Nil
    /\ \E n \in ClassNames :
           ClassCalls(scPass.ops, "Delete", n) # {} /\ ~storageClass[n].exists
    /\ \E n \in ClassNames :
           /\ storageClass[n].exists
           /\ storageClass[n].marked
           /\ ClassCalls(scPass.ops, "Get", n) # {}
           /\ ClassCalls(scPass.ops, "Delete", n) = {}
    /\ \E i \in 1..Len(scPass.ops) : scPass.ops[i].res = "notfound"

\* the kinds of the children that the ensurers get and then create or restore
ChildKinds == {"StorageClass", "CephObjectStore", "ConfigMap", "Secret"}

\* the positions of the calls of a run where the Get of a child failed
FailedFetches(ops) ==
    {i \in 1..Len(ops) :
        /\ ops[i].verb = "Get"
        /\ ops[i].res = "error"
        /\ ops[i].kind \in ChildKinds
        /\ ops[i].name # externalClusterDetailsSecret}

\* C30: fetch failures propagate in every ensurer.  When, in a run of the
\* synthesizer, the Get of a ConfigMap, a Secret, a StorageClass or a
\* CephObjectStore fails with an error other than not-found, the run returns
\* an error and issues no Create, Update or Delete after that Get.
FetchFailuresPropagate ==
    [][ExternalStep =>
          \A i \in FailedFetches(scPass'.ops) :
              /\ scPass'.ret # Nil
              /\ pass'.err # Nil
              /\ \A j \in (i + 1)..Len(scPass'.ops) :
                     scPass'.ops[j].verb
                         \notin {"Create", "Update", "Delete"}]_vars

\* the class that depends on a pool or filesystem is one that the pass may
\* create: its policy is not ignore and its disable flag is unset
MayCreateClassOf(d) ==
    /\ cfg.strategy[KindOfDependency(d)] # "ignore"
    /\ ~cfg.disable[KindOfDependency(d)]

\* the positions of the reads of a dependency in the log of a run
DependencyReads(ops, d) ==
    {i \in 1..Len(ops) : ops[i].verb = "Get" /\ ops[i].kind = d}

\* C32: the dependency gate applies only to classes that will be managed.
\* ensureCreated reads the block pool first when the block class may be
\* created; it does not read a pool or a filesystem whose class is ignored
\* or disabled, and does not fail on its state.
GateOnlyForManaged ==
    [][StepOf("ensureCreated") =>
          /\ MayCreateClassOf("CephBlockPool") =>
                 /\ Len(scPass'.ops) >= 1
                 /\ 1 \in DependencyReads(scPass'.ops, "CephBlockPool")
          /\ \A d \in Dependencies :
                 ~MayCreateClassOf(d) =>
                     /\ DependencyReads(scPass'.ops, d) = {}
                     /\ scPass'.ret \notin {"NotFound",
                                            d \o " is not reporting status",
                                            d \o " is not Ready"}]_vars

\* the class is one that createStorageClasses skips
Skipped(n) ==
    \/ cfg.strategy[KindOfClass(n)] = "ignore"
    \/ cfg.disable[KindOfClass(n)]

\* C33: skip on Ignore or disable.  A run of ensureCreated issues no call on
\* a storage class whose policy is ignore or whose disable flag is set and
\* leaves it as it is; and a run that returns no error has read every class
\* of the list that is not skipped, whichever classes before it are skipped.
SkipOnIgnoreOrDisable ==
    [][StepOf("ensureCreated") =>
          \A n \in ClassNames :
              /\ Skipped(n) =>
                     /\ \A i \in 1..Len(scPass'.ops) :
                            ~(scPass'.ops[i].kind = "StorageClass"
                              /\ scPass'.ops[i].name = n)
                     /\ storageClass'[n] = storageClass[n]
              /\ (/\ ~Skipped(n)
                  /\ n # "ocsinit-ceph-rgw"
                  /\ scPass'.ret = Nil) =>
                     /\ ClassCalls(scPass'.ops, "Get", n) # {}
                     /\ storageClass'[n].exists]_vars

\* a run has skipped the filesystem class, first of the list and absent, and
\* gone on to create the block classes
SkippedAndContinued ==
    /\ scPass.op = "ensureCreated"
    /\ scPass.ret = Nil
    /\ Skipped("ocsinit-cephfs")
    /\ ~storageClass["ocsinit-cephfs"].exists
    /\ ClassCalls(scPass.ops, "Create", "ocsinit-ceph-rbd") # {}
    /\ storageClass["ocsinit-ceph-rbd"].exists
    /\ storageClass["ocsinit-ceph-rbd-thick"].exists

--------------------------------------------------------------------------
(* Properties of the dispatch of the storage-class records *)

DispatchStep ==
    /\ scPass'.op = "ensureExternalStorageClusterResources"
    /\ SynthesisCalled(scPass'.ops)

\* the positions at which a run dispatched an object-gateway record
GatewayDispatches(ops) ==
    {i \in Dispatched(ops) :
        ops[i].kind = "StorageClass" /\ ops[i].name = cephRgwStorageClassName}

\* the positions of the reachability probes of a run, and of its creations
GatewayProbes(ops) == {i \in 1..Len(ops) : ops[i].verb = "Probe"}

Creations(ops) == {i \in 1..Len(ops) : ops[i].verb = "Create"}

GatewayRecord == DecodeElement("rgw")

\* C34: object-gateway record handling.  In a run that dispatches a record
\* named ceph-rgw the endpoint is probed, and no object has been created in
\* the run before the probe; a failed probe makes the run return an error;
\* and in a run that returns no error the object-gateway class, when the run
\* creates it, has every key of the record but "endpoint" in its parameters
\* and not "endpoint", and an object store that was absent is created once,
\* from the endpoint, after the last creation of a storage class.
GatewayRecordHandling ==
    [][DispatchStep =>
          \A i \in GatewayDispatches(scPass'.ops) :
              LET ops == scPass'.ops
                  class == storageClass'["ocsinit-ceph-rgw"]
                  made == {j \in Creations(ops) :
                              ops[j].kind = "CephObjectStore"}
              IN  /\ \E j \in GatewayProbes(ops) :
                         /\ j > i
                         /\ \A k \in Creations(ops) : j < k
                         /\ ops[j].res = "error" => scPass'.ret # Nil
                  /\ scPass'.ret = Nil =>
                         /\ ClassCalls(ops, "Create", "ocsinit-ceph-rgw") # {} =>
                                /\ externalCephRgwEndpointKey
                                       \notin DOMAIN class.Parameters
                                /\ \A k \in DOMAIN GatewayRecord.data
                                               \ {externalCephRgwEndpointKey} :
                                       /\ k \in DOMAIN class.Parameters
                                       /\ class.Parameters[k]
                                              = GatewayRecord.data[k]
                         /\ ~objectStore.exists =>
                                /\ Cardinality(made) = 1
                                /\ \A j \in made : \A k \in Creations(ops) :
                                       ops[k].kind = "StorageClass" => k < j
                                /\ objectStore'.exists
                                /\ objectStore'.spec.gateway =
                                       newExternalGatewaySpec(
                                           GatewayRecord.data[
                                               externalCephRgwEndpointKey]).spec]_vars

\* the connection-info records of the current payload
ConnectionInfo ==
    IF Unmarshal(externalSecret).err # Nil THEN {}
    ELSE {d \in {Unmarshal(externalSecret).data[i] :
                    i \in 1..Len(externalSecret)} : d.kind = "CephCluster"}

\* C36: the monitoring endpoint survives a restart.  After a pass in external
\* mode that ran the synthesizer and returned no error, over a payload with a
\* connection-info record, the monitoring endpoint held by the reconciler is
\* the MonitoringEndpoint of that record; this includes the first pass of a
\* restarted process over a payload whose checksum is already stored.
MonitoringEndpointSurvivesRestart ==
    (/\ scPass.op = "ensureExternalStorageClusterResources"
     /\ pass.ret = Nil) =>
        \A d \in ConnectionInfo :
            /\ "MonitoringEndpoint" \in DOMAIN d.data
            /\ monitoringIP = d.data["MonitoringEndpoint"]

\* C37: the dispatch of storage-class records is total.  Whatever the names
\* of the storage-class records of the payload, a run of the synthesis does
\* not end in a write through a nil class, and a run that returns no error
\* has handed to createStorageClasses exactly the classes that the names of
\* the records select: a record of another name neither adds a class nor
\* takes one away.
TotalDispatch ==
    [][DispatchStep =>
          /\ scPass'.ret # NilDereference
          /\ scPass'.ret = Nil =>
                 ClassesRead(scPass'.ops)
                     = ExternalClassNames(externalSecret)]_vars

--------------------------------------------------------------------------
(* Properties of createStorageClasses on the classes it finds *)

\* the run found class n, not marked for deletion, handled under Manage
FoundUnderManage(n) ==
    /\ ClassCalls(scPass'.ops, "Get", n) # {}
    /\ \A i \in ClassCalls(scPass'.ops, "Get", n) : scPass'.ops[i].res = "ok"
    /\ storageClass[n].exists
    /\ ~storageClass[n].marked
    /\ cfg.strategy[KindOfClass(n)] = "manage"

\* C38: drift is judged on parameters only.  A run of ensureCreated that
\* finds a class under Manage issues a Delete of it if and only if the
\* parameters of the class differ from the desired ones, and a Create only
\* after that Delete; a class whose parameters are the desired ones gets the
\* Get alone and stays as it is, whatever its provisioner.
DriftOnParametersOnly ==
    [][StepOf("ensureCreated") =>
          \A n \in ClassNames :
              FoundUnderManage(n) =>
                  LET differ == storageClass[n].Parameters
                                    # DesiredClass(n).Parameters
                  IN  /\ ClassCalls(scPass'.ops, "Delete", n) # {} <=> differ
                      /\ ClassCalls(scPass'.ops, "Create", n) # {} => differ
                      /\ ~differ =>
                             /\ Cardinality(ClassCalls(scPass'.ops, "Get", n))
                                    = 1
                             /\ storageClass'[n] = storageClass[n]]_vars

\* a run has left alone a class of another provisioner whose parameters are
\* the desired ones
OtherProvisionerLeftAlone ==
    /\ scPass.op = "ensureCreated"
    /\ scPass.ret = Nil
    /\ cfg.strategy["CephBlockPools"] = "manage"
    /\ ClassOpsOf(scPass.ops, "ocsinit-ceph-rbd")
           = <<ObjOp("Get", "StorageClass", "ocsinit-ceph-rbd", "ok")>>
    /\ storageClass["ocsinit-ceph-rbd"].Parameters
           = DesiredClass("ocsinit-ceph-rbd").Parameters
    /\ storageClass["ocsinit-ceph-rbd"].Provisioner
           # DesiredClass("ocsinit-ceph-rbd").Provisioner

\* the run found class n, which is marked for deletion
FoundMarked(n) ==
    /\ storageClass[n].exists
    /\ storageClass[n].marked
    /\ \E i \in ClassCalls(scPass'.ops, "Get", n) : scPass'.ops[i].res = "ok"

\* the run found the object store, which is marked for deletion
FoundMarkedObjectStore ==
    /\ objectStore.exists
    /\ objectStore.marked
    /\ \E i \in 1..Len(scPass'.ops) :
           /\ scPass'.ops[i].kind = "CephObjectStore"
           /\ scPass'.ops[i].verb = "Get"
           /\ scPass'.ops[i].res = "ok"

\* C39: children marked for deletion are never touched.  A run that finds a
\* storage class or the object store with a deletion timestamp makes no call
\* on it but the Get and leaves it as it is; under Manage the run returns the
\* error of that child and the Get is its last call, whatever the parameters
\* of the class; under Init the child raises no error.
MarkedForDeletionUntouched ==
    [][/\ StepOf("ensureCreated") =>
              \A n \in ClassNames :
                  FoundMarked(n) =>
                      /\ ClassOpsOf(scPass'.ops, n)
                             = <<ObjOp("Get", "StorageClass", n, "ok")>>
                      /\ storageClass'[n] = storageClass[n]
                      /\ IF cfg.strategy[KindOfClass(n)] = "init"
                         THEN scPass'.ret # "marked for deletion: " \o n
                         ELSE /\ scPass'.ret = "marked for deletion: " \o n
                              /\ scPass'.ops[Len(scPass'.ops)].name = n
       /\ StepOf("ensureCephObjectStores") =>
              (FoundMarkedObjectStore =>
                  /\ StoreOpsOf(scPass'.ops)
                         = <<ObjOp("Get", "CephObjectStore", ObjectStoreName,
                                   "ok")>>
                  /\ objectStore' = objectStore
                  /\ IF cfg.strategy["CephObjectStores"] = "init"
                     THEN scPass'.ret = Nil
                     ELSE scPass'.ret
                              = "marked for deletion: " \o ObjectStoreName)]_vars

\* a run under Manage has stopped at the block class, marked for deletion and
\* with the desired parameters, after the filesystem class and before the
\* second block class
StoppedAtMarkedClass ==
    /\ scPass.op = "ensureCreated"
    /\ scPass.ret = "marked for deletion: ocsinit-ceph-rbd"
    /\ storageClass["ocsinit-ceph-rbd"].marked
    /\ storageClass["ocsinit-ceph-rbd"].Parameters
           = DesiredClass("ocsinit-ceph-rbd").Parameters
    /\ ClassCalls(scPass.ops, "Get", "ocsinit-cephfs") # {}
    /\ ClassCalls(scPass.ops, "Get", "ocsinit-ceph-rbd-thick") = {}
    /\ ~storageClass["ocsinit-ceph-rbd-thick"].exists

==========================================================================
